---- MODULE Spec2Model ----
(***************************************************************************)
(* Session/request orchestration of the zentao-api client: the Zentao      *)
(* instance (src/src/zentao.ts), its ZentaoConfig (src/src/zentao12.ts,    *)
(* class ZentaoConfig) and the Configstore snapshot it keeps.              *)
(*                                                                         *)
(* Every `await` of the code is a point where another call on the same     *)
(* instance may run, so each asynchronous function is cut into the steps   *)
(* between its awaits; a call keeps the stack of the functions it is in.   *)
(***************************************************************************)
EXTENDS Integers, Sequences, FiniteSets, TLC

VARIABLES
    now,            \* Date.now(), in milliseconds
    config,         \* Zentao._config: <<>> (undefined) or <<a ZentaoConfig>>
    store,          \* the Configstore entry 'config' of the session: <<>> or <<a snapshot>>
    preserveToken,  \* Zentao._preserveToken of the current instance
    calls,          \* the asynchronous calls running on the instance
    sessions,       \* number of sessions the server has handed out in handshakes
    accepted,       \* the Cookie values the server has seen in a successful login exchange
    inst,           \* what the current instance has done since its construction
    fx,             \* what the last step did to the token and to the store
    probe           \* input and result of one evaluation of isTokenExpired

vars == <<now, config, store, preserveToken, calls, sessions, accepted, inst, fx, probe>>

----------------------------------------------------------------------------
(* Bounds of the model *)

\* number of handshakes the server answers in one behaviour
MaxSessions == 2

\* number of times the clock advances in one behaviour
MaxTicks == 2

\* the clock's first value and the amount it advances by, in milliseconds:
\* a token of lifetime 1440 s is still valid one tick after its renewal and
\* expired two ticks after it (2 * 705000 ms = 1410 s)
StartTime == 1000
TickMs == 705000

\* the calls that may be in flight on one instance at the same time
Calls == {1, 2}

----------------------------------------------------------------------------
(* JavaScript values *)

\* `undefined`, for a string-valued and for a number-valued property
Undefined == "undefined"
NoTime == -1

JsNumber(n) == [type |-> "number", digits |-> <<>>, value |-> n]
JsString(ds) == [type |-> "string", digits |-> ds, value |-> 0]

\* x ?? d
Default(x, d) == IF x = Undefined THEN d ELSE x

RECURSIVE ParseInt(_)
\* Number.parseInt(s, 10) of a string of decimal digits
ParseInt(ds) ==
    IF ds = <<>> THEN 0
    ELSE 10 * ParseInt(SubSeq(ds, 1, Len(ds) - 1)) + ds[Len(ds)]

\* module and method names are sequences of characters
UpperCase == <<"A","B","C","D","E","F","G","H","I","J","K","L","M",
               "N","O","P","Q","R","S","T","U","V","W","X","Y","Z">>
LowerCase == <<"a","b","c","d","e","f","g","h","i","j","k","l","m",
               "n","o","p","q","r","s","t","u","v","w","x","y","z">>

ToLowerCase(s) ==
    [i \in 1..Len(s) |->
        IF \E k \in 1..Len(UpperCase) : UpperCase[k] = s[i]
        THEN LowerCase[CHOOSE k \in 1..Len(UpperCase) : UpperCase[k] = s[i]]
        ELSE s[i]]

\* `${moduleName}/${methodName}`
FullName(moduleName, methodName) == moduleName \o <<"/">> \o methodName

UserLogin == <<"u","s","e","r","/","l","o","g","i","n">>

----------------------------------------------------------------------------
(* ZentaoConfig *)

\* new ZentaoConfig(config); _createTime, which nothing reads, is left out
ZentaoConfig(cfg) ==
    [version          |-> cfg.version,
     requestType      |-> IF cfg.requestType = "GET" THEN "GET" ELSE "PATH_INFO",
     requestFix       |-> Default(cfg.requestFix, "-"),
     moduleVar        |-> Default(cfg.moduleVar, "m"),
     methodVar        |-> Default(cfg.methodVar, "f"),
     viewVar          |-> Default(cfg.viewVar, "t"),
     sessionVar       |-> Default(cfg.sessionVar, "zentaosid"),
     sessionName      |-> Default(cfg.sessionName, "zentaosid\""),
     sessionID        |-> cfg.sessionID,
     random           |-> cfg.random,
     serverTime       |-> cfg.serverTime,
     expiredTime      |-> IF cfg.expiredTime.type = "string"
                          THEN ParseInt(cfg.expiredTime.digits)
                          ELSE cfg.expiredTime.value,
     _tokenUpdateTime |-> cfg._tokenUpdateTime,
     _token           |-> cfg._token]

\* ZentaoConfig.token
ConfigToken(c) == IF c._token = Undefined THEN "" ELSE c._token

\* ZentaoConfig.tokenAuth
TokenAuth(c) == Default(c.sessionName, "") \o "=" \o Default(c.sessionID, "")

\* renewToken() that sets the token and leaves the time of the renewal unset
RenewToken_NoStamp(c, t) == [c EXCEPT !._token = TokenAuth(c)]

\* ZentaoConfig.renewToken() at time t
RenewToken(c, t) == [c EXCEPT !._token = TokenAuth(c), !._tokenUpdateTime = t]

\* isTokenExpired without the 30 s margin
IsTokenExpired_NoMargin(c, t) ==
    IF c._tokenUpdateTime = NoTime \/ c._tokenUpdateTime = 0
    THEN TRUE
    ELSE (t - c._tokenUpdateTime) >= (c.expiredTime * 1000)

\* isTokenExpired with > for >=
IsTokenExpired_Exclusive(c, t) ==
    IF c._tokenUpdateTime = NoTime \/ c._tokenUpdateTime = 0
    THEN TRUE
    ELSE (t - c._tokenUpdateTime) > ((c.expiredTime - 30) * 1000)

\* ZentaoConfig.isTokenExpired at time t
IsTokenExpired(c, t) ==
    IF c._tokenUpdateTime = NoTime \/ c._tokenUpdateTime = 0
    THEN TRUE
    ELSE (t - c._tokenUpdateTime) >= ((c.expiredTime - 30) * 1000)

\* a snapshot without the properties whose names begin with an underscore
Serialize_PublicOnly(c) ==
    [c EXCEPT !.expiredTime = JsNumber(c.expiredTime),
              !._token = Undefined, !._tokenUpdateTime = NoTime]

\* what Configstore writes for a ZentaoConfig: JSON.stringify keeps the own
\* properties that are not undefined, and a number stays a number
Serialize(c) == [c EXCEPT !.expiredTime = JsNumber(c.expiredTime)]

----------------------------------------------------------------------------
(* The server *)

SessionId(n) == "sid" \o ToString(n)

\* the bodies the server answers `?mode=getconfig` with, for its n-th session
HandshakePayloads(n) ==
    LET full == [version |-> "pro9.0.3", requestType |-> "PATH_INFO",
                 requestFix |-> "-", moduleVar |-> "m", methodVar |-> "f",
                 viewVar |-> "t", sessionVar |-> "zentaosid",
                 sessionName |-> "zentaosid", sessionID |-> SessionId(n),
                 random |-> 5337, serverTime |-> 1615098427,
                 expiredTime |-> JsString(<<1, 4, 4, 0>>),
                 _tokenUpdateTime |-> NoTime, _token |-> Undefined]
    IN  { full,
          [full EXCEPT !.requestType = "GET", !.requestFix = Undefined,
                       !.moduleVar = Undefined, !.methodVar = Undefined,
                       !.viewVar = Undefined, !.sessionVar = Undefined,
                       !.sessionName = Undefined,
                       !.expiredTime = JsNumber(30)] }

\* the values of a response body and of its fields: undefined, null, a
\* string (its characters), an array of numbers, an empty object
JsUndefined == [t |-> "undefined", s |-> <<>>, v |-> <<>>]
JsNull == [t |-> "null", s |-> <<>>, v |-> <<>>]
JsText(s) == [t |-> "string", s |-> s, v |-> <<>>]
JsArray(v) == [t |-> "array", s |-> <<>>, v |-> v]
JsObject == [t |-> "object", s |-> <<>>, v |-> <<>>]

\* x ?? d
Coalesce(x, d) == IF x.t \in {"undefined", "null"} THEN d ELSE x

Digits == <<"0","1","2","3","4","5","6","7","8","9">>
IsDigit(ch) == \E k \in 1..Len(Digits) : Digits[k] = ch
DigitValue(ch) == (CHOOSE k \in 1..Len(Digits) : Digits[k] = ch) - 1

\* JSON.parse, for the texts "{}" and "[d,d,...]" of one-digit numbers; any
\* other text here is one JSON.parse throws a SyntaxError for
JsonParse(s) ==
    LET n == Len(s)
        inner == SubSeq(s, 2, n - 1)
        \* digits at the odd places, commas at the even ones
        list == /\ n >= 2
                /\ s[1] = "["
                /\ s[n] = "]"
                /\ (Len(inner) = 0 \/ Len(inner) % 2 = 1)
                /\ \A i \in 1..Len(inner) :
                      IF i % 2 = 1 THEN IsDigit(inner[i]) ELSE inner[i] = ","
    IN  IF s = <<"{", "}">>
        THEN [ok |-> TRUE, value |-> JsObject]
        ELSE IF list
        THEN [ok |-> TRUE,
              value |-> JsArray([i \in 1..((Len(inner) + 1) \div 2) |->
                                    DigitValue(inner[2 * i - 1])])]
        ELSE [ok |-> FALSE, value |-> JsUndefined]

Success == <<"s","u","c","c","e","s","s">>
ErrorMsg == <<"e","r","r","o","r">>

\* a response body: null, a string (raw), or an object with the fields
\* Zentao.request reads
NullBody ==
    [t |-> "null", raw |-> <<>>, status |-> JsUndefined, result |-> JsUndefined,
     message |-> JsUndefined, data |-> JsUndefined]
TextBody(raw) == [NullBody EXCEPT !.t = "string", !.raw = raw]
\* an array: typeof gives 'object', and it has none of the four fields
ArrayBody == [NullBody EXCEPT !.t = "array"]

\* typeof remoteData === 'object' && remoteData !== null
IsObjectBody(body) == body.t \in {"object", "array"}
ObjectBody(status, result, message, data) ==
    [t |-> "object", raw |-> <<>>, status |-> status, result |-> result,
     message |-> message, data |-> data]

\* whether Zentao.request decodes the body's data field
DecodesData(body) ==
    /\ IsObjectBody(body)
    /\ body.data.t = "string"
    /\ Len(body.data.s) > 0
    /\ body.data.s[1] \in {"[", "{"}

\* a normalization that looks for "success" in the status field only
Normalize_StatusOnly(body) ==
    IF ~IsObjectBody(body)
    THEN [threw |-> FALSE, status |-> 0, msg |-> JsText(ErrorMsg),
          result |-> IF body.t = "null" THEN JsNull ELSE JsText(body.raw)]
    ELSE LET parsed  == JsonParse(body.data.s)
             data    == IF DecodesData(body) THEN parsed.value ELSE body.data
             success == body.status = JsText(Success)
         IN  IF DecodesData(body) /\ ~parsed.ok
             THEN [threw |-> TRUE, status |-> -1, msg |-> JsUndefined,
                   result |-> JsUndefined]
             ELSE [threw  |-> FALSE,
                   status |-> IF success THEN 1 ELSE 0,
                   msg    |-> Coalesce(body.message,
                                       JsText(IF success THEN Success ELSE ErrorMsg)),
                   result |-> Coalesce(data, body.result)]

\* Zentao.request: the normalized result of a response body, before the
\* converter; `threw` when JSON.parse throws
Normalize(body) ==
    IF ~IsObjectBody(body)
    THEN [threw |-> FALSE, status |-> 0, msg |-> JsText(ErrorMsg),
          result |-> IF body.t = "null" THEN JsNull ELSE JsText(body.raw)]
    ELSE LET parsed  == JsonParse(body.data.s)
             data    == IF DecodesData(body) THEN parsed.value ELSE body.data
             success == body.status = JsText(Success) \/ body.result = JsText(Success)
         IN  IF DecodesData(body) /\ ~parsed.ok
             THEN [threw |-> TRUE, status |-> -1, msg |-> JsUndefined,
                   result |-> JsUndefined]
             ELSE [threw  |-> FALSE,
                   status |-> IF success THEN 1 ELSE 0,
                   msg    |-> Coalesce(body.message,
                                       JsText(IF success THEN Success ELSE ErrorMsg)),
                   result |-> Coalesce(data, body.result)]

\* the bodies the server answers an API exchange with
ResponseBodies ==
    { ObjectBody(JsText(Success), JsUndefined, JsUndefined, JsUndefined),
      ObjectBody(JsUndefined, JsText(Success), JsUndefined, JsUndefined),
      ObjectBody(JsText(<<"f","a","i","l">>), JsUndefined, JsUndefined, JsUndefined),
      ObjectBody(JsText(Success), JsUndefined, JsUndefined, JsText(<<"{","o">>)),
      TextBody(<<"o","k">>),
      NullBody }

\* the operations the callers ask for
Product == <<"p","r","o","d","u","c","t">>
Operations ==
    { [module |-> Product,                method |-> <<"a","l","l">>],
      [module |-> <<"u","s","e","r">>,    method |-> <<"l","o","g","i","n">>],
      [module |-> <<"U","s","e","r">>,    method |-> <<"L","o","g","i","n">>] }

----------------------------------------------------------------------------
(* One asynchronous call: the functions it is in, innermost last *)

\* a function the call is in: which one, the point it has reached, and for
\* request() its arguments and its local `headers.Cookie`
Frame(fn, moduleName, methodName, at) ==
    [fn |-> fn, module |-> moduleName, method |-> methodName, at |-> at,
     cookie |-> ""]

Top(call) == call.stack[Len(call.stack)]

\* the name under which the handshake stands in a call's list of exchanges
GetConfig == <<"?","m","o","d","e","=","g","e","t","c","o","n","f","i","g">>

IdleCall ==
    [pc     |-> "idle",      \* idle, awaitAxios, resume, returned, threw
     kind   |-> "none",      \* the function the caller called
     module |-> <<>>, method |-> <<>>,
     stack  |-> <<>>,
     ret    |-> -1,          \* status of the result the last request() returned
     error  |-> "",          \* what the call threw
     entry  |-> [noConfig |-> FALSE, expired |-> FALSE],
     logins |-> 0,           \* login() calls made by the auth gate in this call
     xlog   |-> <<>>]        \* the HTTP exchanges this call has sent, in order

\* the call a caller starts; `entry` records the state it starts in
NewCall(kind, moduleName, methodName) ==
    [IdleCall EXCEPT
        !.kind = kind, !.module = moduleName, !.method = methodName,
        !.entry = [noConfig |-> config = <<>>,
                   expired  |-> config # <<>> /\ IsTokenExpired(config[1], now)]]

Free(call) == call.pc = "idle"

\* the call is over and its caller has not yet taken the result
Over(call) == call.pc \in {"returned", "threw"}

AwaitsHandshake(call) ==
    call.pc = "awaitAxios" /\ Top(call).fn = "fetchConfig"

AwaitsExchange(call) ==
    call.pc = "awaitAxios" /\ Top(call).fn = "request"

\* an exception that the function awaiting the failed one swallows
Throw_Swallowed(call, error) ==
    [call EXCEPT
        !.stack = SubSeq(@, 1, Len(@) - 1),
        !.pc = IF Len(call.stack) <= 1 THEN "threw" ELSE "resume",
        !.error = error]

\* an exception leaves every function of the call
Throw(call, error) ==
    [call EXCEPT !.pc = "threw", !.stack = <<>>, !.error = error]

\* the innermost function returns to the one awaiting it, or to the caller
Return(call) ==
    [call EXCEPT
        !.stack = SubSeq(@, 1, Len(@) - 1),
        !.pc = IF Len(call.stack) = 1 THEN "returned" ELSE "resume"]

\* Zentao.fetchConfig up to its await: axios.get(`${url}/?mode=getconfig`)
InvokeFetchConfig(call) ==
    [call EXCEPT
        !.stack = Append(@, Frame("fetchConfig", <<>>, <<>>, "get")),
        !.pc = "awaitAxios",
        !.xlog = Append(@, GetConfig)]

\* Zentao.login up to its first await: await this.fetchConfig()
InvokeLogin(call) ==
    InvokeFetchConfig(
        [call EXCEPT !.stack = Append(@, Frame("login", <<>>, <<>>, "fetchConfig"))])

\* a gate that looks for a config and not at the age of its token
NeedsLogin_IgnoresExpiry(cfg, t, moduleName, methodName) ==
    /\ cfg = <<>>
    /\ ToLowerCase(FullName(moduleName, methodName)) # UserLogin

\* the auth gate of Zentao.request
NeedsLogin(cfg, t, moduleName, methodName) ==
    /\ (cfg = <<>> \/ IsTokenExpired(cfg[1], t))
    /\ ToLowerCase(FullName(moduleName, methodName)) # UserLogin

\* a Cookie header made of the token, which is empty until a login succeeds
CookieHeader_Token(cfg) == ConfigToken(cfg)

\* the Cookie header Zentao.request sends
CookieHeader(cfg) == TokenAuth(cfg)

\* a request that goes on without a config, and sends no Cookie then
RequestBody_Unchecked(call) ==
    [call EXCEPT
        !.stack[Len(call.stack)].at = "exchange",
        !.stack[Len(call.stack)].cookie =
            IF config = <<>> THEN "" ELSE CookieHeader(config[1]),
        !.pc = "awaitAxios",
        !.xlog = Append(@, FullName(Top(call).module, Top(call).method))]

\* Zentao.request after the gate, up to its await: the config check, the
\* headers and axios.request
RequestBody(call) ==
    IF config = <<>>
    THEN Throw(call, "config")
    ELSE [call EXCEPT
            !.stack[Len(call.stack)].at = "exchange",
            !.stack[Len(call.stack)].cookie = CookieHeader(config[1]),
            !.pc = "awaitAxios",
            !.xlog = Append(@, FullName(Top(call).module, Top(call).method))]

\* Zentao.request from its entry up to its first await
InvokeRequest(call, moduleName, methodName) ==
    LET entered == [call EXCEPT
                      !.stack = Append(@, Frame("request", moduleName, methodName, "gate"))]
    IN  IF NeedsLogin(config, now, moduleName, methodName)
        THEN InvokeLogin([entered EXCEPT !.logins = @ + 1])
        ELSE RequestBody(entered)

\* whether the request() the call is in was made by login(), which passes
\* the converter that reads remoteData.user
HasLoginConverter(call) ==
    /\ Len(call.stack) >= 2
    /\ call.stack[Len(call.stack) - 1].fn = "login"

\* the error Zentao.request throws after a response, or "" for none: the
\* SyntaxError of JSON.parse, the TypeError of login()'s converter on null
ResponseError(call, body) ==
    IF Normalize(body).threw THEN "syntax"
    ELSE IF HasLoginConverter(call) /\ body.t = "null" THEN "type"
    ELSE ""

\* the status of the result Zentao.request returns (the converter of login()
\* and the field filter leave it as it is), -1 when it throws
ResultStatus(call, body) ==
    IF ResponseError(call, body) # "" THEN -1 ELSE Normalize(body).status

\* a fetchConfig that carries the token of the config it replaces over
ParseHandshake_KeepsToken(payload) ==
    IF config = <<>>
    THEN ZentaoConfig(payload)
    ELSE [ZentaoConfig(payload) EXCEPT
            !._token = config[1]._token,
            !._tokenUpdateTime = config[1]._tokenUpdateTime]

\* the config fetchConfig builds from the handshake's body
ParseHandshake(payload) == ZentaoConfig(payload)

\* a renewal after every exchange that succeeds
ShouldRenew_AnySuccess(moduleName, methodName, status) == status = 1

\* whether Zentao.request renews the token after an exchange
ShouldRenew(moduleName, methodName, status) ==
    FullName(moduleName, methodName) = UserLogin /\ status = 1

\* a constructor that reads the store whatever preserveToken is
ReadsStore_Always(preserve) == TRUE

\* whether the constructor opens the Configstore and reads 'config'
ReadsStore(preserve) == preserve

\* whether Zentao.request writes the renewed config to the Configstore
WritesStore(preserve) == preserve

----------------------------------------------------------------------------
(* What the instance has done, and what the last step did *)

NewInstance(restored) ==
    [restored   |-> restored,  \* the constructor found a config in the store
     called     |-> 0,         \* calls made on it: 0, 1, or 2 for more
     handshakes |-> FALSE,     \* it has sent a handshake
     logins     |-> FALSE]     \* it has sent a login exchange

\* the last step: whether it renewed the token, wrote the store, read the
\* store, the exchange it saw answered, as <<name, status>>, and the exchange
\* it saw fail in the transport, as <<name>>
Quiet ==
    [renewed |-> FALSE, stored |-> FALSE, read |-> FALSE, answered |-> <<>>,
     failed |-> <<>>]

IsLoginName(name) == ToLowerCase(name) = UserLogin

\* the instance after a step of `call` that sent an exchange, or none
Sent(i, call) ==
    LET sent == call.pc = "awaitAxios"
        name == call.xlog[Len(call.xlog)]
    IN  [i EXCEPT !.handshakes = @ \/ (sent /\ name = GetConfig),
                  !.logins = @ \/ (sent /\ IsLoginName(name))]

\* the instance after a caller has made `call`
Called(i, call) ==
    [Sent(i, call) EXCEPT !.called = IF i.called = 0 THEN 1 ELSE 2]

\* the caller of a call that is over takes its result before anything else
\* happens (a step that reads and writes nothing of the instance)
Settled == \A c \in Calls : ~Over(calls[c])

\* the callers use the first call that is free
FirstFree(c) ==
    /\ Free(calls[c])
    /\ \A d \in Calls : d < c => ~Free(calls[d])

\* the server answers at most MaxSessions handshakes
HandshakeRoom(call) ==
    AwaitsHandshake(call) =>
        sessions + Cardinality({d \in Calls : AwaitsHandshake(calls[d])}) < MaxSessions

----------------------------------------------------------------------------
(* The steps *)

Init ==
    /\ now = StartTime
    /\ config = <<>>
    /\ store = <<>>
    /\ preserveToken \in BOOLEAN
    /\ calls = [c \in Calls |-> IdleCall]
    /\ sessions = 0
    /\ accepted = {}
    /\ inst = NewInstance(FALSE)
    /\ fx = [Quiet EXCEPT !.read = ReadsStore(preserveToken)]
    /\ probe = <<>>

\* a caller makes `call`
Start(c, call) ==
    /\ Settled
    /\ FirstFree(c)
    /\ HandshakeRoom(call)
    /\ calls' = [calls EXCEPT ![c] = call]
    /\ inst' = Called(inst, call)
    /\ fx' = Quiet
    /\ UNCHANGED <<now, config, store, preserveToken, sessions, accepted, probe>>

\* the caller calls request(moduleName, methodName)
CallRequest(c, op) ==
    Start(c, InvokeRequest(NewCall("request", op.module, op.method),
                           op.module, op.method))

\* the caller calls login()
CallLogin(c) ==
    Start(c, InvokeLogin(NewCall("login", <<>>, <<>>)))

\* the caller calls fetchConfig()
CallFetchConfig(c) ==
    Start(c, InvokeFetchConfig(NewCall("fetchConfig", <<>>, <<>>)))

\* fetchConfig after its await: the handshake is answered
HandshakeResponse(c, payload) ==
    /\ Settled
    /\ AwaitsHandshake(calls[c])
    /\ config' = <<ParseHandshake(payload)>>
    /\ sessions' = sessions + 1
    /\ calls' = [calls EXCEPT ![c] = Return(calls[c])]
    /\ fx' = [Quiet EXCEPT !.answered = <<GetConfig, 1>>]
    /\ UNCHANGED <<now, store, preserveToken, accepted, inst, probe>>

\* request after its await: the exchange is answered with `body`
ExchangeResponse(c, body) ==
    /\ Settled
    /\ AwaitsExchange(calls[c])
    /\ LET call   == calls[c]
           status == ResultStatus(call, body)
           renew  == ShouldRenew(Top(call).module, Top(call).method, status)
           name   == call.xlog[Len(call.xlog)]
       IN  /\ config' = IF renew THEN <<RenewToken(config[1], now)>> ELSE config
           /\ store' = IF renew /\ WritesStore(preserveToken)
                       THEN <<Serialize(config'[1])>> ELSE store
           /\ accepted' = IF IsLoginName(name) /\ status = 1
                          THEN accepted \cup {Top(call).cookie} ELSE accepted
           /\ calls' = [calls EXCEPT ![c] =
                            IF status = -1
                            THEN Throw(call, ResponseError(call, body))
                            ELSE Return([call EXCEPT !.ret = status])]
           /\ fx' = [Quiet EXCEPT !.renewed = renew,
                                  !.stored = renew /\ WritesStore(preserveToken),
                                  !.answered = <<name, status>>]
    /\ UNCHANGED <<now, preserveToken, sessions, inst, probe>>

\* axios rejects: the error leaves fetchConfig or request, and every caller
TransportFailure(c) ==
    /\ Settled
    /\ calls[c].pc = "awaitAxios"
    /\ calls' = [calls EXCEPT ![c] = Throw(calls[c], "transport")]
    /\ fx' = [Quiet EXCEPT !.failed = <<calls[c].xlog[Len(calls[c].xlog)]>>]
    /\ UNCHANGED <<now, config, store, preserveToken, sessions, accepted, inst, probe>>

\* login after `await this.fetchConfig()`: this.m('user').f('login')...post(),
\* and after the await of that request: return res
ResumeLogin(c) ==
    /\ Settled
    /\ calls[c].pc = "resume"
    /\ Top(calls[c]).fn = "login"
    /\ LET call == IF Top(calls[c]).at = "fetchConfig"
                   THEN InvokeRequest(
                            [calls[c] EXCEPT !.stack[Len(calls[c].stack)].at = "post"],
                            <<"u","s","e","r">>, <<"l","o","g","i","n">>)
                   ELSE Return(calls[c])
       IN  /\ HandshakeRoom(call)
           /\ calls' = [calls EXCEPT ![c] = call]
           /\ inst' = Sent(inst, call)
    /\ fx' = Quiet
    /\ UNCHANGED <<now, config, store, preserveToken, sessions, accepted, probe>>

\* request after `await this.login()`
ResumeRequest(c) ==
    /\ Settled
    /\ calls[c].pc = "resume"
    /\ Top(calls[c]).fn = "request"
    /\ LET call == RequestBody(calls[c])
       IN  /\ calls' = [calls EXCEPT ![c] = call]
           /\ inst' = Sent(inst, call)
    /\ fx' = Quiet
    /\ UNCHANGED <<now, config, store, preserveToken, sessions, accepted, probe>>

\* the caller takes the result, or the error, of a call that is over
Settle(c) ==
    /\ Over(calls[c])
    /\ calls' = [calls EXCEPT ![c] = IdleCall]
    /\ fx' = Quiet
    /\ UNCHANGED <<now, config, store, preserveToken, sessions, accepted, inst, probe>>

\* time passes
Tick ==
    /\ Settled
    /\ now + TickMs <= StartTime + MaxTicks * TickMs
    /\ now' = now + TickMs
    /\ fx' = Quiet
    /\ UNCHANGED <<config, store, preserveToken, calls, sessions, accepted, inst, probe>>

\* new Zentao(options), under the same session name, once the calls of the
\* instance before it are over
Construct(preserve) ==
    /\ \A c \in Calls : Free(calls[c])
    /\ inst.called > 0
    /\ preserveToken' = preserve
    /\ config' = IF ReadsStore(preserve) /\ store # <<>>
                 THEN <<ZentaoConfig(store[1])>> ELSE <<>>
    /\ inst' = NewInstance(config' # <<>>)
    /\ fx' = [Quiet EXCEPT !.read = ReadsStore(preserve)]
    /\ UNCHANGED <<now, store, calls, sessions, accepted, probe>>

\* Zentao.token
InstanceToken == IF config = <<>> THEN "" ELSE ConfigToken(config[1])

\* no call is in flight
Alone == \A c \in Calls : Free(calls[c])

\* the callers make one call at a time: each awaits its call before the next
Next ==
    \/ \E c \in Calls, op \in Operations : Alone /\ CallRequest(c, op)
    \/ \E c \in Calls : Alone /\ CallLogin(c)
    \/ \E c \in Calls : Alone /\ CallFetchConfig(c)
    \/ \E c \in Calls, payload \in HandshakePayloads(sessions + 1) : HandshakeResponse(c, payload)
    \/ \E c \in Calls, body \in ResponseBodies : ExchangeResponse(c, body)
    \/ \E c \in Calls : TransportFailure(c)
    \/ \E c \in Calls : ResumeLogin(c)
    \/ \E c \in Calls : ResumeRequest(c)
    \/ \E c \in Calls : Settle(c)
    \/ Tick
    \/ \E preserve \in BOOLEAN : Construct(preserve)

Spec == Init /\ [][Next]_vars

\* the callers make calls while others are in flight
NextOverlap ==
    \/ \E c \in Calls, op \in Operations : CallRequest(c, op)
    \/ \E c \in Calls : CallLogin(c)
    \/ \E c \in Calls : CallFetchConfig(c)
    \/ \E c \in Calls, payload \in HandshakePayloads(sessions + 1) : HandshakeResponse(c, payload)
    \/ \E c \in Calls, body \in ResponseBodies : ExchangeResponse(c, body)
    \/ \E c \in Calls : TransportFailure(c)
    \/ \E c \in Calls : ResumeLogin(c)
    \/ \E c \in Calls : ResumeRequest(c)
    \/ \E c \in Calls : Settle(c)
    \/ Tick
    \/ \E preserve \in BOOLEAN : Construct(preserve)

SpecOverlap == Init /\ [][NextOverlap]_vars

----------------------------------------------------------------------------
(* isTokenExpired on its own: configs of several lifetimes, never renewed   *)
(* or renewed at StartTime, read at several ages of the token               *)

Lifetimes == {0, 29, 30, 31, 60, 1440}

AgesMs == {0, 1, 999, 1000, 1001, 29999, 30000, 1409000, 1409999,
           1410000, 1410001, 1411000}

ConfigOfLifetime(seconds) ==
    ZentaoConfig([CHOOSE p \in HandshakePayloads(1) : p.requestType = "PATH_INFO"
                     EXCEPT !.expiredTime = JsNumber(seconds)])

InitExpiry ==
    /\ \E seconds \in Lifetimes, age \in AgesMs, renewed \in BOOLEAN :
          /\ now = StartTime + age
          /\ config = <<IF renewed
                         THEN RenewToken(ConfigOfLifetime(seconds), StartTime)
                         ELSE ConfigOfLifetime(seconds)>>
    /\ store = <<>>
    /\ preserveToken = FALSE
    /\ calls = [c \in Calls |-> IdleCall]
    /\ sessions = 1
    /\ accepted = {}
    /\ inst = NewInstance(FALSE)
    /\ fx = Quiet
    /\ probe = <<>>

\* the getter is read
ReadIsTokenExpired ==
    /\ probe = <<>>
    /\ probe' = <<IsTokenExpired(config[1], now)>>
    /\ UNCHANGED <<now, config, store, preserveToken, calls, sessions, accepted, inst, fx>>

NextExpiry == ReadIsTokenExpired

SpecExpiry == InitExpiry /\ [][NextExpiry]_vars

----------------------------------------------------------------------------
(* The functions that read no state of the instance: `probe` holds the
   arguments of one application, and its result after them *)

\* no instance is used
NoInstance ==
    /\ now = StartTime
    /\ config = <<>>
    /\ store = <<>>
    /\ preserveToken = FALSE
    /\ calls = [c \in Calls |-> IdleCall]
    /\ sessions = 0
    /\ accepted = {}
    /\ inst = NewInstance(FALSE)
    /\ fx = Quiet

\* the function is applied to the arguments in `probe`
Apply(result) ==
    /\ probe' = Append(probe, result)
    /\ UNCHANGED <<now, config, store, preserveToken, calls, sessions, accepted, inst, fx>>

\* the response bodies the normalization is applied to
NormalizeInputs ==
    { ObjectBody(status, result, message, data) :
        status  \in {JsUndefined, JsText(Success), JsText(<<"f","a","i","l">>)},
        result  \in {JsUndefined, JsText(Success), JsText(<<"r">>)},
        message \in {JsUndefined, JsNull, JsText(<<>>), JsText(<<"m">>)},
        data    \in {JsUndefined, JsNull, JsText(<<>>), JsText(<<"a">>),
                     JsText(<<"[","1",",","2","]">>), JsText(<<"[","]">>),
                     JsText(<<"{","}">>), JsText(<<"{","o">>),
                     JsArray(<<7>>), JsObject} }
    \cup {TextBody(<<>>), TextBody(<<"o","k">>), NullBody, ArrayBody}

InitNormalize ==
    /\ NoInstance
    /\ \E body \in NormalizeInputs : probe = <<body>>

\* Zentao.request normalizes the body
ApplyNormalize ==
    /\ Len(probe) = 1
    /\ Apply(Normalize(probe[1]))

NextNormalize == ApplyNormalize

SpecNormalize == InitNormalize /\ [][NextNormalize]_vars

----------------------------------------------------------------------------
(* Request parameters: utils.normalizeRequestParams, utils.mergeRequestParams
   and ZentaoRequestBuilder.appendParams. A string is the sequence of its
   characters, a pair is <<key, value>>, a value is a JsText or a JsArray of
   values *)

\* the characters of the keys and values, in the order of their code units
Alphabet == Digits \o UpperCase \o LowerCase
CodeUnit(ch) == CHOOSE k \in 1..Len(Alphabet) : Alphabet[k] = ch

\* a < b for strings, as Array.prototype.sort() compares them
StringLess(a, b) ==
    \E i \in 1..(Len(a) + 1) :
        /\ i <= Len(b)
        /\ \A j \in 1..(i - 1) : a[j] = b[j]
        /\ (i = Len(a) + 1 \/ CodeUnit(a[i]) < CodeUnit(b[i]))

\* the pieces of s between the occurrences of sep
RECURSIVE Split(_, _)
Split(s, sep) ==
    IF \A i \in 1..Len(s) : s[i] # sep
    THEN <<s>>
    ELSE LET i == CHOOSE k \in 1..Len(s) :
                    s[k] = sep /\ \A j \in 1..(k - 1) : s[j] # sep
         IN  <<SubSeq(s, 1, i - 1)>> \o Split(SubSeq(s, i + 1, Len(s)), sep)

\* the index of the first pair of `pairs` with the key, 0 for none
IndexOfKey(pairs, key) ==
    IF \E i \in 1..Len(pairs) : pairs[i][1] = key
    THEN CHOOSE i \in 1..Len(pairs) :
            pairs[i][1] = key /\ \A j \in 1..(i - 1) : pairs[j][1] # key
    ELSE 0

\* querystring.parse(text), for texts of the characters of Alphabet, '=' and
\* '&': an object, as its entries in the order of insertion; a key that
\* occurs again gets the array of its values
RECURSIVE QueryEntries(_, _)
QueryEntries(segments, entries) ==
    IF segments = <<>> THEN entries
    ELSE LET seg   == segments[1]
             kv    == Split(seg, "=")
             key   == kv[1]
             value == JsText(SubSeq(seg, Len(key) + 2, Len(seg)))
             i     == IndexOfKey(entries, key)
             next  == IF seg = <<>> THEN entries
                      ELSE IF i = 0 THEN Append(entries, <<key, value>>)
                      ELSE [entries EXCEPT ![i][2] =
                              IF @.t = "array" THEN JsArray(Append(@.v, value))
                              ELSE JsArray(<<@, value>>)]
         IN  QueryEntries(Tail(segments), next)

QueryParse(text) == QueryEntries(Split(text, "&"), <<>>)

\* the entries of an object in the order of Object.keys(params)
SortedByKey_InsertionOrder(entries) == entries

\* the entries of an object in the order of Object.keys(params).sort()
SortedByKey(entries) ==
    [i \in 1..Len(entries) |->
        entries[CHOOSE j \in 1..Len(entries) :
                    Cardinality({k \in 1..Len(entries) :
                                    StringLess(entries[k][1], entries[j][1])}) = i - 1]]

\* the forms of ZentaoRequestParams: none, a query string, an object (its
\* entries in the order of insertion), a list of pairs and bare strings
NoParams == [form |-> "undefined", text |-> <<>>, items |-> <<>>]
QueryParams(text) == [form |-> "string", text |-> text, items |-> <<>>]
ObjectParams(entries) == [form |-> "object", text |-> <<>>, items |-> entries]
ListParams(items) == [form |-> "array", text |-> <<>>, items |-> items]

\* an item of a list: a bare string, or a pair
BareItem(s) == <<"string", s>>
PairItem(key, value) == <<"pair", key, value>>

\* a normalization that keeps the pairs of a query string in the order the
\* parser yields them
NormalizeRequestParams_TextOrder(params) ==
    CASE params.form = "string" -> QueryParse(params.text)
      [] params.form = "array" ->
            [i \in 1..Len(params.items) |->
                IF params.items[i][1] = "string"
                THEN <<<<>>, JsText(params.items[i][2])>>
                ELSE <<params.items[i][2], params.items[i][3]>>]
      [] params.form = "object" -> SortedByKey(params.items)
      [] OTHER -> <<>>

\* utils.normalizeRequestParams
NormalizeRequestParams(params) ==
    LET parsed == IF params.form = "string"
                  THEN ObjectParams(QueryParse(params.text))
                  ELSE params
    IN  CASE parsed.form = "array" ->
                [i \in 1..Len(parsed.items) |->
                    IF parsed.items[i][1] = "string"
                    THEN <<<<>>, JsText(parsed.items[i][2])>>
                    ELSE <<parsed.items[i][2], parsed.items[i][3]>>]
          [] parsed.form = "object" -> SortedByKey(parsed.items)
          [] OTHER -> <<>>

\* a merge that wraps the earlier value and the later one in a new array
\* also when the earlier value is an array
MergePair_AlwaysWraps(pairs, pair) ==
    LET i == IF pair[1] # <<>> THEN IndexOfKey(pairs, pair[1]) ELSE 0
    IN  IF i # 0
        THEN [pairs EXCEPT ![i][2] = JsArray(<<@, pair[2]>>)]
        ELSE Append(pairs, pair)

\* a merge in which the later value takes the place of the earlier one
MergePair_Overwrites(pairs, pair) ==
    LET i == IF pair[1] # <<>> THEN IndexOfKey(pairs, pair[1]) ELSE 0
    IN  IF i # 0
        THEN [pairs EXCEPT ![i][2] = pair[2]]
        ELSE Append(pairs, pair)

\* the loop body of utils.mergeRequestParams: one pair of a later source
MergePair(pairs, pair) ==
    LET i == IF pair[1] # <<>> THEN IndexOfKey(pairs, pair[1]) ELSE 0
    IN  IF i # 0
        THEN [pairs EXCEPT ![i][2] =
                IF @.t = "array" THEN JsArray(Append(@.v, pair[2]))
                ELSE JsArray(<<@, pair[2]>>)]
        ELSE Append(pairs, pair)

RECURSIVE MergePairs(_, _)
MergePairs(pairs, others) ==
    IF others = <<>> THEN pairs
    ELSE MergePairs(MergePair(pairs, others[1]), Tail(others))

\* utils.mergeRequestParams(params, ...otherParams)
RECURSIVE MergeRequestParams(_, _)
MergeRequestParams(params, otherParams) ==
    IF otherParams = <<>>
    THEN NormalizeRequestParams(params)
    ELSE MergePairs(
            MergeRequestParams(params, SubSeq(otherParams, 1, Len(otherParams) - 1)),
            NormalizeRequestParams(otherParams[Len(otherParams)]))

\* a list of pairs as ZentaoRequestParams, which is what merge returns
AsParams(pairs) ==
    ListParams([i \in 1..Len(pairs) |-> PairItem(pairs[i][1], pairs[i][2])])

\* whether `if (this._params)` takes the params for set
IsSet(params) ==
    /\ params.form # "undefined"
    /\ ~(params.form = "string" /\ params.text = <<>>)

\* ZentaoRequestBuilder.appendParams: the builder's _params after it
AppendParams(current, params) ==
    IF IsSet(current)
    THEN AsParams(MergeRequestParams(current, <<params>>))
    ELSE params

\* the strings of the examples
Foo == <<"f","o","o">>
Bar == <<"b","a","r">>
Hello == <<"h","e","l","l","o">>
World == <<"w","o","r","l","d">>
Answer == <<"a","n","s","w","e","r">>
Ter == <<"t","e","r">>
Say == <<"s","a","y">>
Hi == <<"h","i">>
FortyTwo == <<"4","2">>
CapitalHello == <<"H","e","l","l","o">>

\* the parameter definitions the functions are applied to
ParamSources ==
    { NoParams,
      QueryParams(<<>>),
      QueryParams(<<"a","n","s","w","e","r","=","4","2">>),
      QueryParams(<<"f","o","o","=","b","a","r","&","a","n","s","w","e","r","=","4","2">>),
      QueryParams(<<"s","a","y","=","h","i","&","f","o","o","=","t","e","r","&","s","a","y","=","b","a","r">>),
      ObjectParams(<< <<Foo, JsText(Bar)>>, <<Hello, JsText(World)>> >>),
      ObjectParams(<< <<Hello, JsText(World)>>, <<Foo, JsText(Bar)>> >>),
      ObjectParams(<< <<Answer, JsText(FortyTwo)>>, <<CapitalHello, JsText(World)>> >>),
      QueryParams(<<"f","o","o","=","h","i">>),
      ListParams(<<>>),
      ListParams(<< BareItem(Hi) >>),
      ListParams(<< PairItem(Foo, JsText(Ter)), PairItem(Say, JsText(Hi)) >>),
      ListParams(<< BareItem(Hi), PairItem(<<>>, JsText(Bar)), PairItem(Foo, JsText(Ter)) >>) }

\* the most sources merged into a base, or appended to a builder, at once
MaxOthers == 2

\* the sequences of 0..n sources
RECURSIVE SourceLists(_)
SourceLists(n) ==
    IF n = 0 THEN {<<>>}
    ELSE LET shorter == SourceLists(n - 1)
         IN  shorter \cup {Append(l, p) : l \in {x \in shorter : Len(x) = n - 1},
                                          p \in ParamSources}

InitParams ==
    /\ NoInstance
    /\ \E fn \in {"normalize", "merge", "append"},
          base \in ParamSources, others \in SourceLists(MaxOthers) :
          /\ fn = "normalize" => others = <<>>
          /\ probe = <<[fn |-> fn, base |-> base, others |-> others]>>

\* normalizeRequestParams(base)
ApplyNormalizeParams ==
    /\ Len(probe) = 1
    /\ probe[1].fn = "normalize"
    /\ Apply(NormalizeRequestParams(probe[1].base))

\* mergeRequestParams(base, ...others)
ApplyMerge ==
    /\ Len(probe) = 1
    /\ probe[1].fn = "merge"
    /\ Apply(MergeRequestParams(probe[1].base, probe[1].others))

\* the params of a builder after withParams(base) and one appendParams for
\* each of the others
RECURSIVE Appended(_, _)
Appended(current, others) ==
    IF others = <<>> THEN current
    ELSE Appended(AppendParams(current, others[1]), Tail(others))

\* builder.withParams(base).appendParams(..)...: the params the request of
\* the builder is made with, as Zentao.request normalizes them
ApplyAppends ==
    /\ Len(probe) = 1
    /\ probe[1].fn = "append"
    /\ Apply(NormalizeRequestParams(Appended(probe[1].base, probe[1].others)))

NextParams == ApplyNormalizeParams \/ ApplyMerge \/ ApplyAppends

SpecParams == InitParams /\ [][NextParams]_vars

----------------------------------------------------------------------------
(* Zentao.createUrl *)

\* the string of a sequence of characters
RECURSIVE Str(_)
Str(chars) == IF chars = <<>> THEN "" ELSE chars[1] \o Str(Tail(chars))

\* String(value), as a template literal or join('') makes it: the elements
\* of an array joined by ','
RECURSIVE ValueChars(_)
ValueChars(value) ==
    IF value.t = "array"
    THEN IF value.v = <<>> THEN <<>>
         ELSE IF Len(value.v) = 1 THEN ValueChars(value.v[1])
         ELSE ValueChars(value.v[1]) \o <<",">>
                \o ValueChars(JsArray(Tail(value.v)))
    ELSE value.s

\* encodeURIComponent, for the characters of Alphabet, which it keeps like
\* '-', '_' and '.', and for ' ', '&', '=', ',' and '/', which it escapes
EscapeChar(ch) ==
    CASE ch = " " -> "%20"
      [] ch = "&" -> "%26"
      [] ch = "=" -> "%3D"
      [] ch = "," -> "%2C"
      [] ch = "/" -> "%2F"
      [] OTHER -> ch

RECURSIVE EncodeURIComponent(_)
EncodeURIComponent(chars) ==
    IF chars = <<>> THEN ""
    ELSE EscapeChar(chars[1]) \o EncodeURIComponent(Tail(chars))

\* Zentao.requestType: accessMode ?? config.requestType
RequestTypeOf(accessMode, cfg) ==
    IF accessMode # Undefined THEN accessMode ELSE cfg.requestType

\* a PATH_INFO URL that names the parameters
RECURSIVE PathParams_WithKeys(_, _)
PathParams_WithKeys(cfg, params) ==
    IF params = <<>> THEN ""
    ELSE cfg.requestFix \o Str(params[1][1])
            \o cfg.requestFix \o Str(ValueChars(params[1][2]))
            \o PathParams_WithKeys(cfg, Tail(params))

\* the part of the URL createUrl makes of the params, in PATH_INFO mode
RECURSIVE PathParams(_, _)
PathParams(cfg, params) ==
    IF params = <<>> THEN ""
    ELSE cfg.requestFix \o Str(ValueChars(params[1][2]))
            \o PathParams(cfg, Tail(params))

\* a GET URL with the values as they are
RECURSIVE QueryString_Raw(_)
QueryString_Raw(params) ==
    IF params = <<>> THEN ""
    ELSE "&" \o Str(params[1][1]) \o "=" \o Str(ValueChars(params[1][2]))
            \o QueryString_Raw(Tail(params))

\* the part of the URL createUrl makes of the params, in GET mode
RECURSIVE QueryString(_)
QueryString(params) ==
    IF params = <<>> THEN ""
    ELSE "&" \o Str(params[1][1]) \o "="
            \o EncodeURIComponent(ValueChars(params[1][2]))
            \o QueryString(Tail(params))

\* Zentao.createUrl(moduleName, methodName, params) on an instance with the
\* url, the accessMode and the config
CreateUrl(url, accessMode, cfg, moduleName, methodName, params) ==
    IF RequestTypeOf(accessMode, cfg) = "PATH_INFO"
    THEN url \o Str(moduleName) \o cfg.requestFix \o Str(methodName)
            \o PathParams(cfg, params) \o ".json"
    ELSE url \o "?" \o cfg.moduleVar \o "=" \o Str(moduleName)
            \o "&" \o cfg.methodVar \o "=" \o Str(methodName)
            \o QueryString(params)
            \o "&" \o cfg.viewVar \o "=json"

\* the url of the instance
BaseUrl == "http://demo.zentao.net/"

\* the configs of the instance: those of the handshake payloads, and one of
\* a server with names of its own
UrlConfigs ==
    {ZentaoConfig(payload) : payload \in HandshakePayloads(1)}
    \cup {ZentaoConfig([p EXCEPT !.requestFix = "_", !.moduleVar = "mod",
                                 !.methodVar = "fn", !.viewVar = "view"]) :
            p \in {q \in HandshakePayloads(1) : q.requestType = "PATH_INFO"}}

Status == <<"s","t","a","t","u","s">>
Noclosed == <<"n","o","c","l","o","s","e","d">>

\* the params of the requests
UrlParams ==
    ParamSources
    \cup { ListParams(<< PairItem(Status, JsText(Noclosed)) >>),
           ListParams(<< PairItem(Say, JsText(<<"a"," ","b","&","c","=","d","/","e">>)),
                         PairItem(Foo, JsArray(<<JsText(Bar), JsText(Ter)>>)) >>) }

InitUrl ==
    /\ now = StartTime
    /\ \E cfg \in UrlConfigs : config = <<cfg>>
    /\ store = <<>>
    /\ preserveToken = FALSE
    /\ calls = [c \in Calls |-> IdleCall]
    /\ sessions = 1
    /\ accepted = {}
    /\ inst = NewInstance(FALSE)
    /\ fx = Quiet
    /\ \E accessMode \in {Undefined, "GET", "PATH_INFO"},
          op \in Operations, params \in UrlParams :
          probe = <<[accessMode |-> accessMode, module |-> op.module,
                     method |-> op.method, params |-> params]>>

\* Zentao.request makes the URL of the params it has normalized
ApplyCreateUrl ==
    /\ Len(probe) = 1
    /\ Apply(CreateUrl(BaseUrl, probe[1].accessMode, config[1],
                       probe[1].module, probe[1].method,
                       NormalizeRequestParams(probe[1].params)))

NextUrl == ApplyCreateUrl

SpecUrl == InitUrl /\ [][NextUrl]_vars

----------------------------------------------------------------------------
(* The url of the instance and the handshake: utils.formatZentaoUrl in the
   constructor, and Zentao.fetchConfig with the URL it sends the GET to *)

StartsWith(s, prefix) ==
    Len(prefix) <= Len(s) /\ SubSeq(s, 1, Len(prefix)) = prefix

EndsWith(s, suffix) ==
    Len(suffix) <= Len(s) /\ SubSeq(s, Len(s) - Len(suffix) + 1, Len(s)) = suffix

Http == <<"h","t","t","p",":","/","/">>
Https == <<"h","t","t","p","s",":","/","/">>
IndexPhp == <<"/","i","n","d","e","x",".","p","h","p">>

\* a formatZentaoUrl that cuts the whole of '/index.php', its slash included
FormatZentaoUrl_CutsSlash(url) ==
    LET closed == IF EndsWith(url, IndexPhp)
                  THEN SubSeq(url, 1, Len(url) - 10)
                  ELSE IF ~EndsWith(url, <<"/">>) THEN url \o <<"/">>
                  ELSE url
    IN  IF ~StartsWith(closed, Https) /\ ~StartsWith(closed, Http)
        THEN Http \o closed
        ELSE closed

\* utils.formatZentaoUrl
FormatZentaoUrl(url) ==
    LET closed == IF EndsWith(url, IndexPhp)
                  THEN SubSeq(url, 1, Len(url) - 9)
                  ELSE IF ~EndsWith(url, <<"/">>) THEN url \o <<"/">>
                  ELSE url
    IN  IF ~StartsWith(closed, Https) /\ ~StartsWith(closed, Http)
        THEN Http \o closed
        ELSE closed

\* Zentao.fetchConfig: the URL of the handshake, `${this._url}/?mode=getconfig`
HandshakeUrl(url) == url \o <<"/">> \o GetConfig

DemoHost == <<"d","e","m","o",".","z","e","n","t","a","o",".","n","e","t">>

\* the hosts, some with a port or a path, of the raw URLs
Hosts ==
    { DemoHost,
      <<"p","r","o",".">> \o DemoHost,
      DemoHost \o <<"/","z","e","n","t","a","o">>,
      <<"l","o","c","a","l","h","o","s","t",":","8","0","8","0">>,
      <<"h","t","t","p","d",".","l","o","c","a","l">>,
      <<"z">> }

\* options.url: a scheme or none, a host, and an ending
RawUrls ==
    { [scheme |-> scheme, host |-> host, ending |-> ending] :
        scheme \in {<<>>, Http, Https}, host \in Hosts,
        ending \in {<<>>, <<"/">>, IndexPhp} }

RawText(raw) == raw.scheme \o raw.host \o raw.ending

InitHandshake ==
    /\ NoInstance
    /\ \E raw \in RawUrls : probe = <<raw>>

\* new Zentao({url}): this._url
ApplyFormatZentaoUrl ==
    /\ Len(probe) = 1
    /\ Apply(FormatZentaoUrl(RawText(probe[1])))

\* fetchConfig up to its await: axios.get(url)
SendHandshake ==
    /\ Len(probe) = 2
    /\ Apply(HandshakeUrl(probe[2]))

\* fetchConfig after its await: the handshake is answered with the payload
AnswerHandshake(payload) ==
    /\ Len(probe) = 3
    /\ probe' = Append(probe, payload)
    /\ config' = <<ParseHandshake(payload)>>
    /\ sessions' = sessions + 1
    /\ fx' = [Quiet EXCEPT !.answered = <<GetConfig, 1>>]
    /\ UNCHANGED <<now, store, preserveToken, calls, accepted, inst>>

NextHandshake ==
    \/ ApplyFormatZentaoUrl
    \/ SendHandshake
    \/ \E payload \in HandshakePayloads(sessions + 1) : AnswerHandshake(payload)

SpecHandshake == InitHandshake /\ [][NextHandshake]_vars

----------------------------------------------------------------------------
(* ZentaoRequestBuilder, and the body of a request. The caller keeps one
   body object, which it may hand to post(); `probe` holds the builder, that
   object, the last operation on the builder and what Zentao.request was
   given and sent for each terminal operation *)

\* the body of a request: none, a string, or the caller's object
NoBody == [t |-> "undefined", s |-> <<>>]
StringBody(s) == [t |-> "string", s |-> s]
CallerBody == [t |-> "object", s |-> <<>>]

\* the names of the fields of the bodies
ParentDeptID == <<"p","a","r","e","n","t","D","e","p","t","I","D">>
Depts == <<"d","e","p","t","s">>
Order == <<"o","r","d","e","r">>
Note == <<"n","o","t","e">>
Account == <<"a","c","c","o","u","n","t">>
Password == <<"p","a","s","s","w","o","r","d">>

\* the fields of the caller's object, in the order of Object.keys: a scalar
\* value is a JsText, an array-valued field a JsArray of them
DeptsBody ==
    << <<ParentDeptID, JsText(<<"3">>)>>,
       <<Depts, JsArray(<<JsText(<<"d","-","1">>), JsText(<<"d"," ","2">>)>>)>>,
       <<Order, JsArray(<<>>)>>,
       <<Note, JsText(<<>>)>> >>
OrderBody ==
    << <<Order, JsArray(<<JsText(<<"7">>)>>)>> >>
LoginBody ==
    << <<Account, JsText(<<"d","e","m","o">>)>>,
       <<Password, JsText(<<"1","2","3","4","5","6">>)>> >>

\* `${key}[${index}]` = item, for the items of an array from index on (an
\* index of one digit)
RECURSIVE IndexedKeys(_, _, _)
IndexedKeys(key, items, index) ==
    IF items = <<>> THEN <<>>
    ELSE << <<key \o <<"[", Digits[index + 1], "]">>, items[1]>> >>
            \o IndexedKeys(key, Tail(items), index + 1)

\* a form that keeps an array-valued field under its own key
RECURSIVE FormData_KeepsArrays(_)
FormData_KeepsArrays(data) ==
    IF data = <<>> THEN <<>>
    ELSE <<data[1]>> \o FormData_KeepsArrays(Tail(data))

\* Zentao.request: the formData made of a body object
RECURSIVE FormData(_)
FormData(data) ==
    IF data = <<>> THEN <<>>
    ELSE (IF data[1][2].t = "array"
          THEN IndexedKeys(data[1][1], data[1][2].v, 0)
          ELSE <<data[1]>>)
         \o FormData(Tail(data))

\* Zentao.request: the body object after `delete data[key]` for each of its
\* array-valued fields
DataAfterRequest(data) == SelectSeq(data, LAMBDA e : e[2].t # "array")

\* querystring.escape, for the characters of Alphabet, which it keeps like
\* '-', and for '[', ']' and ' ', which it escapes
QueryEscapeChar(ch) ==
    CASE ch = "[" -> "%5B"
      [] ch = "]" -> "%5D"
      [] ch = " " -> "%20"
      [] OTHER -> ch

RECURSIVE QueryEscape(_)
QueryEscape(chars) ==
    IF chars = <<>> THEN ""
    ELSE QueryEscapeChar(chars[1]) \o QueryEscape(Tail(chars))

\* querystring.stringify(formData), for values that are strings; for an
\* array it repeats the key for each item
RECURSIVE QueryStringify(_)
QueryStringify(formData) ==
    IF formData = <<>> THEN ""
    ELSE LET key   == QueryEscape(formData[1][1])
             value == formData[1][2]
             items == IF value.t = "array"
                      THEN [i \in 1..Len(value.v) |-> <<formData[1][1], value.v[i]>>]
                      ELSE <<>>
             first == IF value.t = "array"
                      THEN QueryStringify(items)
                      ELSE key \o "=" \o QueryEscape(value.s)
             rest  == QueryStringify(Tail(formData))
         IN  IF rest = "" THEN first
             ELSE IF first = "" THEN rest
             ELSE first \o "&" \o rest

\* Zentao.request: the data it gives axios for the body it was given, the
\* caller's object holding `object`
Payload(body, object) ==
    CASE body.t = "object" -> QueryStringify(FormData(object))
      [] body.t = "string" -> Str(body.s)
      [] OTHER -> "undefined"

\* new ZentaoRequestBuilder(zentao, moduleName, methodName, params)
Index == <<"i","n","d","e","x">>
NewBuilder(moduleName, methodName, params) ==
    [moduleName      |-> moduleName,
     methodName      |-> IF methodName = <<>> THEN Index ELSE methodName,
     params          |-> params,
     data            |-> NoBody,
     fields          |-> <<>>,          \* <<>>: undefined, or <<the list>>
     resultConvertor |-> Undefined,
     name            |-> Undefined,
     url             |-> Undefined]

\* ZentaoRequestBuilder.method
SetMethod(b, name) == [b EXCEPT !.methodName = name]

\* a withParams that merges the params into those the builder has
WithParams_Merges(b, params) ==
    [b EXCEPT !.params = AppendParams(b.params, params)]

\* ZentaoRequestBuilder.withParams
WithParams(b, params) == [b EXCEPT !.params = params]

\* ZentaoRequestBuilder.appendParams
BuilderAppendParams(b, params) ==
    [b EXCEPT !.params = AppendParams(b.params, params)]

\* ZentaoRequestBuilder.named
Named(b, name) == [b EXCEPT !.name = name]

\* ZentaoRequestBuilder.useConverter
UseConverter(b, converter) == [b EXCEPT !.resultConvertor = converter]

\* an argument of filterFields: a string, an array of strings, or undefined
FieldName(s) == [t |-> "string", s |-> s, v |-> <<>>]
FieldNames(v) == [t |-> "array", s |-> "", v |-> v]
NoField == [t |-> "undefined", s |-> "", v |-> <<>>]

\* fields.flat().filter(x => x !== undefined)
RECURSIVE FlatFields(_)
FlatFields(fields) ==
    IF fields = <<>> THEN <<>>
    ELSE (CASE fields[1].t = "string" -> <<fields[1].s>>
            [] fields[1].t = "array" -> fields[1].v
            [] OTHER -> <<>>)
         \o FlatFields(Tail(fields))

\* ZentaoRequestBuilder.filterFields
FilterFields(b, fields) == [b EXCEPT !.fields = <<FlatFields(fields)>>]

\* a terminal operation that gives request() the builder's own body whatever
\* the argument of post
TerminalOptions_StoredBody(b, method, data) ==
    [method |-> method, params |-> b.params, data |-> b.data,
     fields |-> b.fields, resultConvertor |-> b.resultConvertor,
     name |-> b.name, url |-> b.url]

\* ZentaoRequestBuilder.get / post / request: the options request() is given;
\* `data` is the argument of post, NoBody for the two others
TerminalOptions(b, method, data) ==
    [method |-> method, params |-> b.params,
     data |-> IF data.t = "undefined" THEN b.data ELSE data,
     fields |-> b.fields, resultConvertor |-> b.resultConvertor,
     name |-> b.name, url |-> b.url]

\* the arguments of the operations on the builder
Dept == <<"d","e","p","t">>
ManageChild == <<"m","a","n","a","g","e","C","h","i","l","d">>
All == <<"a","l","l">>
Create == <<"c","r","e","a","t","e">>
FooTerSayHi == ListParams(<< PairItem(Foo, JsText(Ter)), PairItem(Say, JsText(Hi)) >>)
BuilderParams ==
    { ObjectParams(<< <<Foo, JsText(Bar)>>, <<Hello, JsText(World)>> >>),
      FooTerSayHi }
FieldArguments ==
    { <<FieldName("id"), FieldNames(<<"name", "title">>), NoField>>,
      <<NoField, FieldNames(<<>>)>> }
PostArguments == {NoBody, StringBody(<<"a","=","1">>), CallerBody}

\* the config of an instance that has logged in at StartTime
LoggedInConfig ==
    LET payload == CHOOSE p \in HandshakePayloads(1) : p.requestType = "GET"
    IN  RenewToken(ZentaoConfig([payload EXCEPT !.expiredTime = JsNumber(1440)]),
                   StartTime)

\* the most mutators called on a builder
MaxMutators == 2

\* a builder that zentao.m() has just made, and the caller's object
NewProbe(builder, object) ==
    [builder  |-> builder,
     object   |-> object,
     last     |-> [op |-> "new", arg |-> <<>>, this |-> TRUE],
     mutators |-> 0,
     requests |-> <<>>]

InitBuilder ==
    /\ now = StartTime
    /\ config = <<LoggedInConfig>>
    /\ store = <<>>
    /\ preserveToken = FALSE
    /\ calls = [c \in Calls |-> IdleCall]
    /\ sessions = 1
    /\ accepted = {}
    /\ inst = NewInstance(FALSE)
    /\ fx = Quiet
    /\ \E made \in {<<<<>>, NoParams>>, <<All, FooTerSayHi>>},
          object \in {DeptsBody, LoginBody} :
          probe = <<NewProbe(NewBuilder(Product, made[1], made[2]), object)>>

\* the caller calls a mutator, which returns `this`
Mutate(op, arg, builder) ==
    /\ Alone
    /\ probe[1].mutators < MaxMutators
    /\ probe' = <<[probe[1] EXCEPT
                     !.builder = builder,
                     !.last = [op |-> op, arg |-> arg, this |-> TRUE],
                     !.mutators = @ + 1]>>
    /\ fx' = Quiet
    /\ UNCHANGED <<now, config, store, preserveToken, calls, sessions, accepted, inst>>

CallMethod(name) == Mutate("method", name, SetMethod(probe[1].builder, name))
\* f(name): return this.method(name)
CallF(name) == Mutate("f", name, SetMethod(probe[1].builder, name))
CallWithParams(params) ==
    Mutate("withParams", params, WithParams(probe[1].builder, params))
CallAppendParams(params) ==
    Mutate("appendParams", params, BuilderAppendParams(probe[1].builder, params))
CallNamed(name) == Mutate("named", name, Named(probe[1].builder, name))
CallUseConverter(converter) ==
    Mutate("useConverter", converter, UseConverter(probe[1].builder, converter))
CallFilterFields(fields) ==
    Mutate("filterFields", fields, FilterFields(probe[1].builder, fields))

\* the caller calls get(), post(data) or request(method): Zentao.request with
\* the options, on an instance whose token is valid, up to its await
Terminal(c, op, method, data) ==
    LET b       == probe[1].builder
        options == TerminalOptions(b, method, data)
        call    == InvokeRequest(NewCall("request", b.moduleName, b.methodName),
                                 b.moduleName, b.methodName)
        object  == probe[1].object
    IN  /\ Alone
        /\ FirstFree(c)
        /\ calls' = [calls EXCEPT ![c] = call]
        /\ inst' = Called(inst, call)
        /\ fx' = Quiet
        /\ probe' = <<[probe[1] EXCEPT
                         !.last = [op |-> op, arg |-> data, this |-> FALSE],
                         !.object = IF options.data.t = "object"
                                    THEN DataAfterRequest(object) ELSE object,
                         !.requests = Append(@,
                            [options |-> options,
                             method  |-> IF options.method = Undefined
                                         THEN "GET" ELSE options.method,
                             url     |-> IF options.url # Undefined THEN options.url
                                         ELSE CreateUrl(BaseUrl, Undefined, config[1],
                                                  b.moduleName, b.methodName,
                                                  NormalizeRequestParams(options.params)),
                             given   |-> IF options.data.t = "object"
                                         THEN object ELSE <<>>,
                             form    |-> IF options.data.t = "object"
                                         THEN FormData(object) ELSE <<>>,
                             data    |-> Payload(options.data, object),
                             Cookie  |-> Top(call).cookie])]>>
        /\ UNCHANGED <<now, config, store, preserveToken, sessions, accepted>>

CallGet(c) == Terminal(c, "get", "GET", NoBody)
CallPost(c, data) == Terminal(c, "post", "POST", data)
CallBuilderRequest(c, method) == Terminal(c, "request", method, NoBody)

\* a builder is used for one terminal operation
Unfired == probe[1].requests = <<>>

NextBuilder ==
    \/ CallMethod(All)
    \/ CallF(Create)
    \/ \E params \in BuilderParams : CallWithParams(params)
    \/ \E params \in BuilderParams : CallAppendParams(params)
    \/ CallNamed("deptList")
    \/ CallUseConverter("converter")
    \/ \E fields \in FieldArguments : CallFilterFields(fields)
    \/ \E c \in Calls : Unfired /\ CallGet(c)
    \/ \E c \in Calls, data \in PostArguments : Unfired /\ CallPost(c, data)
    \/ \E c \in Calls, method \in {Undefined, "PUT"} :
          Unfired /\ CallBuilderRequest(c, method)
    \/ \E c \in Calls, body \in ResponseBodies : ExchangeResponse(c, body)
    \/ \E c \in Calls : TransportFailure(c)
    \/ \E c \in Calls : Settle(c)

SpecBuilder == InitBuilder /\ [][NextBuilder]_vars

\* the bodies a caller posts
Bodies == {DeptsBody, LoginBody, OrderBody, <<>>}

\* the most requests made with the caller's object
MaxRequests == 2

\* an instance that has logged in, a builder for dept/manageChild, and the
\* caller's object
InitBody ==
    /\ now = StartTime
    /\ config = <<LoggedInConfig>>
    /\ store = <<>>
    /\ preserveToken = FALSE
    /\ calls = [c \in Calls |-> IdleCall]
    /\ sessions = 1
    /\ accepted = {}
    /\ inst = NewInstance(FALSE)
    /\ fx = Quiet
    /\ \E object \in Bodies :
          probe = <<NewProbe(NewBuilder(Dept, ManageChild, NoParams), object)>>

\* the caller makes its requests one after the other
NextBody ==
    \/ \E c \in Calls, data \in PostArguments :
          Len(probe[1].requests) < MaxRequests /\ CallPost(c, data)
    \/ \E c \in Calls, body \in ResponseBodies : ExchangeResponse(c, body)
    \/ \E c \in Calls : TransportFailure(c)
    \/ \E c \in Calls : Settle(c)

SpecBody == InitBody /\ [][NextBody]_vars

----------------------------------------------------------------------------
(* The field filter: utils.slimmingObject, and its use in Zentao.request *)

\* an object with the properties, as <<name, value>> in the order of insertion
JsRecord(properties) == [t |-> "object", s |-> <<>>, v |-> properties]

\* whether the object has the property as its own
HasProperty(object, name) ==
    /\ object.t = "object"
    /\ \E i \in 1..Len(object.v) : object.v[i][1] = name

\* object[name], for a name that is not one of Array.prototype
GetProperty(object, name) ==
    IF HasProperty(object, name)
    THEN object.v[CHOOSE i \in 1..Len(object.v) : object.v[i][1] = name][2]
    ELSE JsUndefined

\* object[name] = value
SetProperty(object, name, value) ==
    IF HasProperty(object, name)
    THEN JsRecord([i \in 1..Len(object.v) |->
                      IF object.v[i][1] = name THEN <<name, value>> ELSE object.v[i]])
    ELSE JsRecord(Append(object.v, <<name, value>>))

\* the loop of slimmingObject over the fields
RECURSIVE CopyFields(_, _, _)
CopyFields(newObject, object, fields) ==
    IF fields = <<>> THEN newObject
    ELSE CopyFields(SetProperty(newObject, fields[1], GetProperty(object, fields[1])),
                    object, Tail(fields))

\* !object || typeof object !== 'object' || object === null, for the values
\* here: every string but '' is truthy and not an object
IsSlimmed(object) == object.t \in {"object", "array"}

\* utils.slimmingObject
SlimmingObject(object, fields) ==
    IF ~IsSlimmed(object) THEN object
    ELSE CopyFields(JsRecord(<<>>), object, fields)

\* Zentao.request: result.result after the filter; fields is <<>> for
\* undefined, or <<the list>>
FilterResult(result, fields) ==
    IF fields # <<>> /\ IsSlimmed(result)
    THEN IF result.t = "array"
         THEN JsArray([i \in 1..Len(result.v) |-> SlimmingObject(result.v[i], fields[1])])
         ELSE SlimmingObject(result, fields[1])
    ELSE result

\* the results of the example and of the tests
TitleResult ==
    JsRecord(<< <<"title", JsText(<<"x">>)>>,
                <<"products", JsArray(<<JsText(<<"p">>)>>)>>,
                <<"extra", JsText(<<"1">>)>> >>)
AbcdResult ==
    JsRecord(<< <<"a", JsText(<<"1">>)>>, <<"b", JsNull>>,
                <<"c", JsText(<<"3">>)>>, <<"d", JsText(<<"t">>)>> >>)
TitleOnly == JsRecord(<< <<"title", JsText(<<"y">>)>> >>)

FilterResults ==
    { TitleResult, AbcdResult, TitleOnly, JsRecord(<<>>),
      JsUndefined, JsNull, JsText(<<"o","k">>), JsText(<<>>),
      JsArray(<<>>),
      JsArray(<<TitleResult, TitleOnly>>),
      JsArray(<<AbcdResult, JsNull, JsText(<<"s">>)>>),
      JsArray(<<JsText(<<"a">>), JsText(<<"b">>)>>) }

FilterLists ==
    { <<>>,
      << <<>> >>,
      << <<"title", "products">> >>,
      << <<"b", "c">> >>,
      << <<"a", "b", "c", "d">> >>,
      << <<"title">> >>,
      << <<"extra", "title", "extra">> >> }

InitFilter ==
    /\ NoInstance
    /\ \E result \in FilterResults, fields \in FilterLists :
          probe = <<[result |-> result, fields |-> fields]>>

\* Zentao.request filters the result
ApplyFilter ==
    /\ Len(probe) = 1
    /\ Apply(FilterResult(probe[1].result, probe[1].fields))

NextFilter == ApplyFilter

SpecFilter == InitFilter /\ [][NextFilter]_vars

(***************************************************************************)
(* The objects of the caller that a merged list shares.                    *)
(*                                                                         *)
(* normalizeRequestParams puts the pairs of a list into its result as the  *)
(* objects they are, and makes a new pair around each value of an object;  *)
(* mergeRequestParams assigns to `existsParam[1]` or pushes onto it.  The  *)
(* arguments of one call are taken to be distinct objects.                 *)
(***************************************************************************)

\* what a pair of a normalized list shares with argument `src`: nothing, the
\* pair itself (item `item` of a list), or the array that is its value (of
\* entry `item` of an object)
NoOwner == [src |-> 0, item |-> 0, kind |-> "none"]
PairOf(s, i) == [src |-> s, item |-> i, kind |-> "pair"]
ValueOf(s, j) == [src |-> s, item |-> j, kind |-> "value"]

\* for each pair of normalizeRequestParams(params), what it shares with
\* params, the argument `s` of the call
SharedBy(params, s) ==
    CASE params.form = "array" ->
            [i \in 1..Len(params.items) |->
                IF params.items[i][1] = "pair" THEN PairOf(s, i) ELSE NoOwner]
      [] params.form = "object" ->
            LET sorted == SortedByKey(params.items)
            IN  [i \in 1..Len(sorted) |->
                    IF sorted[i][2].t = "array"
                    THEN ValueOf(s, CHOOSE j \in 1..Len(params.items) :
                                        params.items[j][1] = sorted[i][1])
                    ELSE NoOwner]
      [] OTHER -> [i \in 1..Len(NormalizeRequestParams(params)) |-> NoOwner]

\* normalizeRequestParams(params) with what its pairs share
NormalizedWithOwners(params, s) ==
    [pairs |-> NormalizeRequestParams(params), owners |-> SharedBy(params, s)]

\* the loop body of mergeRequestParams: `existsParam` is changed in place,
\* and only `normalizedParams.push(param)` adds an object to the list
MergePairWithOwner(merged, pair, owner) ==
    LET pairs == MergePair(merged.pairs, pair)
    IN  [pairs |-> pairs,
         owners |-> IF Len(pairs) > Len(merged.pairs)
                    THEN Append(merged.owners, owner)
                    ELSE merged.owners]

\* `for (const param of otherNormalizedParams)`, from pair k on
RECURSIVE MergeSource(_, _, _)
MergeSource(merged, other, k) ==
    IF k > Len(other.pairs) THEN merged
    ELSE MergeSource(MergePairWithOwner(merged, other.pairs[k], other.owners[k]),
                     other, k + 1)

\* mergeRequestParams(args[1], ..., args[n]) with what its pairs share
RECURSIVE MergeWithOwners(_, _)
MergeWithOwners(args, n) ==
    IF n = 1 THEN NormalizedWithOwners(args[1], 1)
    ELSE MergeSource(MergeWithOwners(args, n - 1),
                     NormalizedWithOwners(args[n], n), 1)

\* the value the caller finds where it had put `value`, in the object that
\* the pair of `owner` shares
Held(merged, owner, value) ==
    IF \E k \in 1..Len(merged.owners) : merged.owners[k] = owner
    THEN merged.pairs[CHOOSE k \in 1..Len(merged.owners) :
                          merged.owners[k] = owner][2]
    ELSE value

\* the argument `s` of the call as the caller finds it once the list
\* `merged` has been built
ArgumentAfter(params, s, merged) ==
    CASE params.form = "array" ->
            ListParams([i \in 1..Len(params.items) |->
                IF params.items[i][1] = "pair"
                THEN PairItem(params.items[i][2],
                              Held(merged, PairOf(s, i), params.items[i][3]))
                ELSE params.items[i]])
      [] params.form = "object" ->
            ObjectParams([j \in 1..Len(params.items) |->
                <<params.items[j][1],
                  Held(merged, ValueOf(s, j), params.items[j][2])>>])
      [] OTHER -> params

ArgumentsAfter(args, merged) ==
    [s \in 1..Len(args) |-> ArgumentAfter(args[s], s, merged)]

\* the _params of a builder: the argument `ref` of the caller itself, or
\* (ref = 0) a list that mergeRequestParams returned
HeldArgument(s) == [ref |-> s, pairs |-> <<>>, owners |-> <<>>]
HeldList(merged) == [ref |-> 0, pairs |-> merged.pairs, owners |-> merged.owners]

\* ZentaoRequestBuilder.appendParams(args[s]) on a builder that holds `held`
AppendWithOwners(held, args, s) ==
    LET current == IF held.ref = 0 THEN AsParams(held.pairs) ELSE args[held.ref]
        base == IF held.ref = 0
                THEN [pairs |-> held.pairs, owners |-> held.owners]
                ELSE NormalizedWithOwners(current, held.ref)
    IN  IF IsSet(current)
        THEN HeldList(MergeSource(base, NormalizedWithOwners(args[s], s), 1))
        ELSE HeldArgument(s)

\* the _params of the builder as a request reads them
HeldParams(held, args) ==
    IF held.ref = 0 THEN AsParams(held.pairs) ELSE args[held.ref]

\* the parameter definitions the caller keeps after the call
FooBars == JsArray(<<JsText(Bar), JsText(Ter)>>)

KeptSources ==
    { NoParams,
      QueryParams(<<"f","o","o","=","h","i">>),
      ObjectParams(<< <<Foo, JsText(Bar)>>, <<Hello, JsText(World)>> >>),
      ObjectParams(<< <<Foo, FooBars>> >>),
      ListParams(<< PairItem(Foo, JsText(Ter)), PairItem(Say, JsText(Hi)) >>),
      ListParams(<< PairItem(Say, FooBars), BareItem(Hi) >>),
      ListParams(<< PairItem(Say, JsText(Hi)), PairItem(Say, JsText(Bar)) >>) }

\* the argument lists of 1..n parameter definitions
RECURSIVE KeptArguments(_)
KeptArguments(n) ==
    IF n = 1 THEN {<<p>> : p \in KeptSources}
    ELSE LET shorter == KeptArguments(n - 1)
         IN  shorter \cup {Append(l, p) : l \in {x \in shorter : Len(x) = n - 1},
                                          p \in KeptSources}

\* how often the caller makes the same call
MaxRepeats == 2

\* the caller's objects before any call (given), as they are now (args), and
\* what each call returned
InitKept ==
    /\ NoInstance
    /\ \E fn \in {"normalize", "merge", "append"},
          args \in KeptArguments(MaxOthers + 1) :
          /\ fn = "normalize" => Len(args) = 1
          /\ probe = <<[fn |-> fn, given |-> args, args |-> args,
                        held |-> HeldArgument(1), results |-> <<>>]>>

Keeps(record) ==
    /\ probe' = <<record>>
    /\ UNCHANGED <<now, config, store, preserveToken, calls, sessions, accepted, inst, fx>>

\* normalizeRequestParams(args[1]), once more
CallNormalize ==
    /\ probe[1].fn = "normalize"
    /\ Len(probe[1].results) < MaxRepeats
    /\ Keeps([probe[1] EXCEPT
                !.results = Append(@, NormalizeRequestParams(probe[1].args[1]))])

\* mergeRequestParams(...args), once more with the same objects
CallMerge ==
    /\ probe[1].fn = "merge"
    /\ Len(probe[1].results) < MaxRepeats
    /\ LET args == probe[1].args
           merged == MergeWithOwners(args, Len(args))
       IN  Keeps([probe[1] EXCEPT !.results = Append(@, merged.pairs),
                                  !.args = ArgumentsAfter(args, merged)])

\* builder.withParams(args[1]), then appendParams(args[2]), appendParams(args[3])..
CallAppend ==
    /\ probe[1].fn = "append"
    /\ Len(probe[1].results) < Len(probe[1].args) - 1
    /\ LET args == probe[1].args
           s == Len(probe[1].results) + 2
           held == AppendWithOwners(probe[1].held, args, s)
           after == IF held.ref = 0 THEN ArgumentsAfter(args, held) ELSE args
       IN  Keeps([probe[1] EXCEPT !.results = Append(@, HeldParams(held, after)),
                                  !.held = held,
                                  !.args = after])

NextKept == CallNormalize \/ CallMerge \/ CallAppend

SpecKept == InitKept /\ [][NextKept]_vars

----------------------------------------------------------------------------
(* The claims *)

ProductAll == FullName(Product, <<"a","l","l">>)

IsPrefix(a, b) == Len(a) <= Len(b) /\ a = SubSeq(b, 1, Len(a))

Range(seq) == {seq[i] : i \in 1..Len(seq)}

\* the name of the operation a request() call was made for
NameOf(call) == FullName(call.module, call.method)

\* the call is a request() that has passed the gate through login() and has
\* sent its own exchange, which is not answered yet
AwaitsTargetAfterLogin(call) ==
    /\ call.kind = "request"
    /\ call.logins = 1
    /\ AwaitsExchange(call)
    /\ Len(call.stack) = 1

\* C1: a request() for an operation other than the login calls login() once
\* when it starts with no config or with an expired token, and not at all
\* otherwise; no call goes through login() more than once by the gate, also
\* when the token is still expired after that login; a request() for the
\* login operation, and the one login() itself makes, never takes the gate.
C1_AuthGateOnce ==
    \A c \in Calls :
        LET call  == calls[c]
            stale == call.entry.noConfig \/ call.entry.expired
        IN  /\ call.kind = "request" =>
                 call.logins = IF stale /\ ~IsLoginName(NameOf(call)) THEN 1 ELSE 0
            /\ call.kind # "request" => call.logins = 0

\* a request() that found its token expired has been through login() once,
\* has sent its own exchange, and the token is expired still
C1_Witness ==
    \E c \in Calls :
        /\ AwaitsTargetAfterLogin(calls[c])
        /\ calls[c].entry.expired
        /\ IsTokenExpired(config[1], now)

\* C2: the exchanges of a call come in the order handshake, login, own
\* exchange: a login() that has returned has sent one handshake and then one
\* user/login exchange, a request('product','all') made with no config that
\* has returned has sent exactly these two and then product/all; and that
\* last exchange carries the tokenAuth of the config the handshake of this
\* call has just made, whose token the accepted login has just renewed.
C2_ExchangeOrder ==
    \A c \in Calls :
        LET call == calls[c]
            full == CASE call.kind = "login" -> <<GetConfig, UserLogin>>
                      [] call.kind = "fetchConfig" -> <<GetConfig>>
                      [] call.kind = "request" /\ call.logins = 1 ->
                            <<GetConfig, UserLogin, NameOf(call)>>
                      [] call.kind = "request" /\ call.logins # 1 -> <<NameOf(call)>>
                      [] OTHER -> <<>>
        IN  /\ IsPrefix(call.xlog, full)
            /\ call.pc = "returned" => call.xlog = full
            /\ (call.pc = "resume" /\ Top(call).fn = "request") =>
                  call.xlog = <<GetConfig, UserLogin>>
            /\ AwaitsTargetAfterLogin(call) =>
                  /\ call.xlog = full
                  /\ Top(call).cookie = TokenAuth(config[1])
                  /\ config[1].sessionID = SessionId(sessions)
                  /\ call.ret = 1 =>
                        /\ ConfigToken(config[1]) = Top(call).cookie
                        /\ config[1]._tokenUpdateTime # NoTime

\* request('product','all') made with no config has sent the handshake, the
\* login, which was accepted, and product/all
C2_Witness ==
    \E c \in Calls :
        /\ AwaitsTargetAfterLogin(calls[c])
        /\ calls[c].entry.noConfig
        /\ calls[c].ret = 1
        /\ calls[c].xlog = <<GetConfig, UserLogin, ProductAll>>

\* C3: a step renews the token exactly when it is the step that sees the
\* user/login exchange answered with a result of status 1; right after it the
\* token is tokenAuth, "<sessionName>=<sessionID>", and not empty, and so it
\* is when login() returns status 1.
C3_RenewOnLoginSuccess ==
    /\ fx.renewed <=> fx.answered = <<UserLogin, 1>>
    /\ fx.renewed =>
          /\ InstanceToken # ""
          /\ InstanceToken = config[1].sessionName \o "=" \o config[1].sessionID
          /\ config[1]._tokenUpdateTime = now
    /\ \A c \in Calls :
          (calls[c].kind = "login" /\ calls[c].pc = "returned" /\ calls[c].ret = 1) =>
              /\ InstanceToken # ""
              /\ InstanceToken = TokenAuth(config[1])

\* the login a request() was sent through by an expired token has just
\* renewed the token
C3_Witness ==
    /\ fx.renewed
    /\ \E c \in Calls : calls[c].kind = "request" /\ calls[c].entry.expired

\* C5: a config whose token is not empty has the time of its renewal set:
\* the instance's config, however it was made, the snapshot in the store and
\* the config a constructor would restore from it.
C5_TokenImpliesIssuedAt ==
    /\ config # <<>> =>
          (ConfigToken(config[1]) # "" => config[1]._tokenUpdateTime # NoTime)
    /\ store # <<>> =>
          /\ store[1]._token # Undefined => store[1]._tokenUpdateTime # NoTime
          /\ ConfigToken(ZentaoConfig(store[1])) # "" =>
                ZentaoConfig(store[1])._tokenUpdateTime # NoTime

\* the constructor has just restored a config with a token from the store
C5_Witness ==
    /\ fx.read
    /\ inst.restored
    /\ InstanceToken # ""

\* C6: right after the handshake is answered the instance's token is empty
\* and isTokenExpired is true; an empty token becomes non-empty only in the
\* step that renews it after an accepted login, or in a constructor that
\* restores a snapshot.
C6_HandshakeUnauthenticated ==
    [][ /\ (fx'.answered # <<>> /\ fx'.answered[1] = GetConfig) =>
              /\ InstanceToken' = ""
              /\ IsTokenExpired(config'[1], now')
        /\ (InstanceToken = "" /\ InstanceToken' # "") =>
              \/ fx'.renewed
              \/ fx'.read /\ store # <<>> ]_vars

\* an instance that had restored a token from the store has just had its
\* handshake answered
C6_Witness ==
    /\ fx.answered # <<>>
    /\ fx.answered[1] = GetConfig
    /\ inst.restored

\* C7: reading isTokenExpired gives true when the time of the renewal is
\* unset, and otherwise exactly when now - _tokenUpdateTime, in milliseconds,
\* is at least (expiredTime - 30) * 1000; reading it changes nothing.
C7_IsTokenExpired ==
    [][ probe' # <<>> =>
          /\ probe'[1] = ( \/ config[1]._tokenUpdateTime = NoTime
                           \/ now - config[1]._tokenUpdateTime
                                >= (config[1].expiredTime - 30) * 1000 )
          /\ UNCHANGED <<now, config, store, preserveToken, calls, accepted>> ]_vars

\* a token of lifetime 31 s read when it is exactly 1 s old: expired
C7_Witness ==
    /\ probe = <<TRUE>>
    /\ config[1].expiredTime = 31
    /\ config[1]._tokenUpdateTime # NoTime
    /\ now - config[1]._tokenUpdateTime = 1000

\* isTokenExpired has been read for a token of lifetime 1440 s that was
\* renewed `age` milliseconds ago
ReadAtAge(age) ==
    /\ probe # <<>>
    /\ config[1].expiredTime = 1440
    /\ config[1]._tokenUpdateTime # NoTime
    /\ now - config[1]._tokenUpdateTime = age

\* C8 as stated: with a lifetime of 1440 s, a token renewed exactly 1410 s
\* ago is not expired and one renewed 1411 s ago is.
C8_AsStated ==
    /\ ReadAtAge(1410000) => probe[1] = FALSE
    /\ ReadAtAge(1411000) => probe[1] = TRUE

\* C8: with a lifetime of 1440 s, a token renewed exactly 1410 s ago is
\* expired, as is one renewed 1411 s ago; one renewed less than 1410 s ago
\* (1409 s, or 1 ms short of 1410 s) is not.
C8_BoundaryInclusive ==
    /\ ReadAtAge(1410000) => probe[1] = TRUE
    /\ ReadAtAge(1411000) => probe[1] = TRUE
    /\ ReadAtAge(1409999) => probe[1] = FALSE
    /\ ReadAtAge(1409000) => probe[1] = FALSE

\* the token of lifetime 1440 s has been read exactly 1410 s after its renewal
C8_Witness == ReadAtAge(1410000)

\* C9: with persistence on, the step that renews the token after an accepted
\* login writes the store, and the snapshot is the renewed config (its token
\* and the time of the renewal); a constructor that finds the snapshot
\* restores a config with the same token, time of renewal, session and
\* dispatch fields; and the first request() on such an instance, when it is
\* not for the login and the token is not expired, sends no handshake and no
\* login exchange.
C9_PersistenceRoundTrip ==
    /\ (fx.renewed /\ preserveToken) => fx.stored
    /\ fx.stored =>
          /\ store # <<>>
          /\ store[1]._token = TokenAuth(config[1])
          /\ store[1]._tokenUpdateTime = now
          /\ ZentaoConfig(store[1]) = config[1]
    /\ (fx.read /\ store # <<>>) =>
          /\ config # <<>>
          /\ ConfigToken(config[1]) = store[1]._token
          /\ config[1]._tokenUpdateTime = store[1]._tokenUpdateTime
          /\ \A f \in {"requestType", "requestFix", "moduleVar", "methodVar",
                       "viewVar", "sessionName", "sessionID"} :
                config[1][f] = store[1][f]
          /\ config[1].expiredTime = store[1].expiredTime.value
    /\ \A c \in Calls :
          ( /\ inst.restored
            /\ inst.called = 1
            /\ calls[c].kind = "request"
            /\ ~IsLoginName(NameOf(calls[c]))
            /\ ~calls[c].entry.expired ) =>
              /\ GetConfig \notin Range(calls[c].xlog)
              /\ UserLogin \notin Range(calls[c].xlog)

\* the first call on an instance that restored an unexpired token is a
\* request('product','all'), and product/all is the one exchange it has sent
C9_Witness ==
    /\ inst.restored
    /\ inst.called = 1
    /\ \E c \in Calls :
          /\ AwaitsExchange(calls[c])
          /\ ~calls[c].entry.expired
          /\ calls[c].xlog = <<ProductAll>>

\* C10: an instance with preserveToken = false never reads the store, never
\* restores a config from it and never writes it; and when one of its calls
\* sends an exchange that is neither the handshake nor a login, the instance
\* has sent a handshake and a login exchange before.
C10_NoPersistence ==
    ~preserveToken =>
        /\ ~fx.read
        /\ ~fx.stored
        /\ ~inst.restored
        /\ \A c \in Calls : \A i \in 1..Len(calls[c].xlog) :
              (calls[c].xlog[i] # GetConfig /\ ~IsLoginName(calls[c].xlog[i])) =>
                  (inst.handshakes /\ inst.logins)

\* an instance with preserveToken = false, made while the store holds a
\* snapshot, has sent product/all
C10_Witness ==
    /\ ~preserveToken
    /\ store # <<>>
    /\ \E c \in Calls : AwaitsExchange(calls[c]) /\ ProductAll \in Range(calls[c].xlog)

\* C4: while two request() calls that both found no valid token, and so both
\* went through handshake and login, are in flight or just over, a config
\* whose token is set (marked as renewed) is the config of a session that a
\* successful login exchange has carried.
C4_OverlapSafe ==
    (\A c \in Calls :
        /\ calls[c].kind = "request"
        /\ calls[c].logins = 1
        /\ (calls[c].entry.noConfig \/ calls[c].entry.expired)) =>
    (InstanceToken # "" => TokenAuth(config[1]) \in accepted)

\* C11: when an exchange fails in the transport, the call it belongs to is
\* over in the same step: it has thrown that error out of every function it
\* was in, has returned nothing, and the failed exchange is the last one it
\* has sent - after a failed handshake no login and no target exchange, after
\* a failed login exchange no target exchange; no exchange is sent twice.
C11_TransportErrorPropagates ==
    /\ fx.failed # <<>> =>
          \E c \in Calls :
             LET call == calls[c] IN
             /\ call.pc = "threw"
             /\ call.error = "transport"
             /\ call.stack = <<>>
             /\ call.xlog # <<>>
             /\ call.xlog[Len(call.xlog)] = fx.failed[1]
             /\ fx.failed[1] = GetConfig => call.xlog = <<GetConfig>>
             /\ (fx.failed[1] = UserLogin /\ call.kind = "request" /\ call.logins = 1) =>
                   call.xlog = <<GetConfig, UserLogin>>
    /\ \A c \in Calls :
          Cardinality(Range(calls[c].xlog)) = Len(calls[c].xlog)

\* the login exchange of a request('product','all') that took the gate has
\* just failed in the transport
C11_Witness ==
    /\ fx.failed = <<UserLogin>>
    /\ \E c \in Calls :
          /\ calls[c].kind = "request"
          /\ calls[c].module = Product
          /\ calls[c].pc = "threw"

\* C12: a call fails with the configuration error exactly when it is a
\* request() for the login operation made while the instance has no config:
\* it then fails at once, before any exchange; a request() for another
\* operation, a login() and a fetchConfig() never fail with it.
C12_ConfigurationError ==
    \A c \in Calls :
        LET call   == calls[c]
            direct == /\ call.kind = "request"
                      /\ IsLoginName(NameOf(call))
                      /\ call.entry.noConfig
        IN  /\ call.error = "config" => direct
            /\ direct =>
                  /\ call.pc = "threw"
                  /\ call.error = "config"
                  /\ call.xlog = <<>>
                  /\ call.ret = -1

\* request('user','login') on an instance with no config has just failed
C12_Witness ==
    \E c \in Calls :
        /\ calls[c].error = "config"
        /\ NameOf(calls[c]) = UserLogin
        /\ config = <<>>

\* C13: when the exchange of a request() that sends nothing but its own
\* exchange is answered, whatever the body, the call returns a result whose
\* status is 0 or 1, and does not throw.
C13_ResponsesAreData ==
    \A c \in Calls :
        ( /\ fx.answered # <<>>
          /\ calls[c].kind = "request"
          /\ calls[c].logins = 0
          /\ calls[c].xlog # <<>> ) =>
            /\ calls[c].pc = "returned"
            /\ calls[c].ret \in {0, 1}

\* what the texts among NormalizeInputs decode to, as JSON
DecodedText(text) ==
    CASE text = <<"[","1",",","2","]">> -> JsArray(<<1, 2>>)
      [] text = <<"[","]">> -> JsArray(<<>>)
      [] text = <<"{","}">> -> JsObject

\* C14: the normalized result of an object body has status 1 exactly when
\* its status or its result field is the string "success"; its msg is the
\* message field, or when there is none 'success' for status 1 and 'error'
\* for status 0; its result is the data field, JSON-decoded when it is a
\* string that begins with '[' or '{', or when there is none the result
\* field. The normalized result of a body that is not an object is
\* {status: 0, msg: 'error', result: the body}.
C14_Normalization ==
    Len(probe) = 2 =>
        LET body    == probe[1]
            r       == probe[2]
            absent(x) == x.t \in {"undefined", "null"}
            success == \/ body.status = JsText(Success)
                       \/ body.result = JsText(Success)
            text    == body.data.t = "string"
            json    == text /\ body.data.s # <<>> /\ body.data.s[1] \in {"[", "{"}
            valid   == body.data.s \in {<<"[","1",",","2","]">>, <<"[","]">>, <<"{","}">>}
        IN  IF body.t \in {"string", "null"}
            THEN /\ ~r.threw
                 /\ r.status = 0
                 /\ r.msg = JsText(<<"e","r","r","o","r">>)
                 /\ r.result = IF body.t = "null" THEN JsNull ELSE JsText(body.raw)
            ELSE (json => valid) =>
                 /\ ~r.threw
                 /\ r.status = IF success THEN 1 ELSE 0
                 /\ r.msg = IF ~absent(body.message) THEN body.message
                            ELSE IF r.status = 1 THEN JsText(<<"s","u","c","c","e","s","s">>)
                            ELSE JsText(<<"e","r","r","o","r">>)
                 /\ r.result = IF absent(body.data) THEN body.result
                               ELSE IF json THEN DecodedText(body.data.s)
                               ELSE body.data

\* a body {result: 'success', data: '[1,2]'} with no message has been
\* normalized: status 1, msg 'success', result the decoded array
C14_Witness ==
    /\ Len(probe) = 2
    /\ probe[1] = ObjectBody(JsUndefined, JsText(Success), JsUndefined,
                             JsText(<<"[","1",",","2","]">>))
    /\ probe[2].status = 1
    /\ probe[2].result = JsArray(<<1, 2>>)

\* a merge of a base and n later sources has been applied
Merged(n) ==
    /\ Len(probe) = 2
    /\ probe[1].fn = "merge"
    /\ Len(probe[1].others) = n

\* the sources of the merge example
ExampleBase == ObjectParams(<< <<Foo, JsText(Bar)>>, <<Hello, JsText(World)>> >>)
ExampleQuery == QueryParams(<<"a","n","s","w","e","r","=","4","2">>)
ExampleList == ListParams(<< PairItem(Foo, JsText(Ter)), PairItem(Say, JsText(Hi)) >>)

Normalized(form) ==
    /\ Len(probe) = 2
    /\ probe[1].fn = "normalize"
    /\ probe[1].base.form = form

\* the query string 'foo=bar&answer=42'
FooThenAnswer ==
    QueryParams(<<"f","o","o","=","b","a","r","&","a","n","s","w","e","r","=","4","2">>)

SayFooSay ==
    QueryParams(<<"s","a","y","=","h","i","&","f","o","o","=","t","e","r","&",
                  "s","a","y","=","b","a","r">>)

\* the empty list has been merged with one query string
MergedIntoEmpty ==
    /\ Merged(1)
    /\ probe[1].base = ListParams(<<>>)
    /\ probe[1].others[1].form = "string"

\* C17 as stated: normalize gives the pairs of a query string in the order
\* in which the parser yields them, the order of the text, and merge adds
\* the pairs of a string source in that order.
C17_TextualOrder ==
    /\ Normalized("string") => probe[2] = QueryParse(probe[1].base.text)
    /\ MergedIntoEmpty => probe[2] = QueryParse(probe[1].others[1].text)

\* C17: normalize gives the pairs of a query string in ascending order of
\* the keys, not in the order of the text: 'foo=bar&answer=42' gives
\* [['answer','42'],['foo','bar']], and 'say=hi&foo=ter&say=bar' gives
\* [['foo','ter'],['say',['hi','bar']]], one pair for the key that occurs
\* twice; merge adds the pairs of a string source in that same order.
C17_KeyOrder ==
    LET sorted(text) ==
            CASE text = FooThenAnswer.text ->
                    << <<Answer, JsText(FortyTwo)>>, <<Foo, JsText(Bar)>> >>
              [] text = SayFooSay.text ->
                    << <<Foo, JsText(Ter)>>,
                       <<Say, JsArray(<<JsText(Hi), JsText(Bar)>>)>> >>
              [] OTHER -> SortedByKey(QueryParse(text))
    IN  /\ Normalized("string") =>
              /\ probe[2] = sorted(probe[1].base.text)
              /\ \A i \in 1..(Len(probe[2]) - 1) :
                    StringLess(probe[2][i][1], probe[2][i + 1][1])
        /\ MergedIntoEmpty => probe[2] = sorted(probe[1].others[1].text)

\* normalize has been applied to 'foo=bar&answer=42', whose keys are not in
\* ascending order in the text
C17_Witness ==
    /\ Normalized("string")
    /\ probe[1].base = FooThenAnswer

\* the query string 'foo=hi'
FooHi == QueryParams(<<"f","o","o","=","h","i">>)

\* three sources that all carry the key foo - {foo:'bar',hello:'world'},
\* [['foo','ter'],['say','hi']] and 'foo=hi' - have been combined, by one
\* merge call or by withParams and two appendParams calls on a builder
ThreeWithFoo(fn) ==
    /\ Len(probe) = 2
    /\ probe[1].fn = fn
    /\ probe[1].base = ExampleBase
    /\ probe[1].others = <<ExampleList, FooHi>>

\* the value the combination gives the key foo
ValueOfFoo == probe[2][IndexOfKey(probe[2], Foo)][2]

\* C18 as stated: one merge call over the three sources gives foo the flat
\* array ['bar','ter','hi'], and the nested composition that two appendParams
\* calls perform gives it [['bar','ter'],'hi'].
C18_NestedShape ==
    /\ ThreeWithFoo("merge") =>
          ValueOfFoo = JsArray(<<JsText(Bar), JsText(Ter), JsText(Hi)>>)
    /\ ThreeWithFoo("append") =>
          ValueOfFoo = JsArray(<<JsArray(<<JsText(Bar), JsText(Ter)>>), JsText(Hi)>>)

\* C18: the shape does not depend on how merges are composed: one merge call
\* over the three sources and the nested composition that two appendParams
\* calls perform both give foo the flat array ['bar','ter','hi']; and the
\* params of a builder after withParams(s1) and appendParams calls for
\* s2, s3 are those of the one call merge(s1, s2, s3), or of merge(s2, s3)
\* when s1 is absent or the empty string.
C18_FlatShape ==
    /\ ThreeWithFoo("merge") =>
          ValueOfFoo = JsArray(<<JsText(Bar), JsText(Ter), JsText(Hi)>>)
    /\ ThreeWithFoo("append") =>
          ValueOfFoo = JsArray(<<JsText(Bar), JsText(Ter), JsText(Hi)>>)
    /\ (Len(probe) = 2 /\ probe[1].fn = "append") =>
          LET base   == probe[1].base
              others == probe[1].others
              unset  == base.form = "undefined" \/ base = QueryParams(<<>>)
          IN  probe[2] = IF unset /\ others # <<>>
                         THEN MergeRequestParams(others[1], Tail(others))
                         ELSE MergeRequestParams(base, others)

\* the three sources have been combined by two appendParams calls
C18_Witness == ThreeWithFoo("append")

\* a URL has been made in the mode, whether the mode is the accessMode of
\* the instance or, without one, the requestType of the config
UrlMade(mode) ==
    /\ Len(probe) = 2
    /\ mode = IF probe[1].accessMode # Undefined
              THEN probe[1].accessMode ELSE config[1].requestType

\* the request is product/all with the params [['status','noclosed']]
ProductAllNoclosed ==
    /\ probe[1].module = Product
    /\ probe[1].method = <<"a","l","l">>
    /\ probe[1].params = ListParams(<< PairItem(Status, JsText(Noclosed)) >>)

\* the config has the default names m, f and t and the separator '-'
DefaultNames ==
    /\ config[1].moduleVar = "m"
    /\ config[1].methodVar = "f"
    /\ config[1].viewVar = "t"
    /\ config[1].requestFix = "-"

\* C19: in GET mode the URL is the base, "?", the module parameter's name,
\* "=", the module, "&", the method parameter's name, "=", the method, then
\* for each normalized pair in order "&", the key, "=" and the
\* percent-encoded value, then "&", the view parameter's name and "=json";
\* with the names m, f, t, product/all and [['status','noclosed']] it is
\* <base>?m=product&f=all&status=noclosed&t=json.
C19_QueryDispatch ==
    UrlMade("GET") =>
        LET pairs == NormalizeRequestParams(probe[1].params)
            head  == BaseUrl \o "?" \o config[1].moduleVar \o "=" \o Str(probe[1].module)
                       \o "&" \o config[1].methodVar \o "=" \o Str(probe[1].method)
            tail  == "&" \o config[1].viewVar \o "=json"
            pair(i) == "&" \o Str(pairs[i][1]) \o "="
                         \o EncodeURIComponent(ValueChars(pairs[i][2]))
        IN  /\ Len(pairs) = 0 => probe[2] = head \o tail
            /\ Len(pairs) = 1 => probe[2] = head \o pair(1) \o tail
            /\ Len(pairs) = 2 => probe[2] = head \o pair(1) \o pair(2) \o tail
            /\ Len(pairs) = 3 =>
                  probe[2] = head \o pair(1) \o pair(2) \o pair(3) \o tail
            /\ Len(pairs) <= 3
            /\ (ProductAllNoclosed /\ DefaultNames) =>
                  probe[2] = "http://demo.zentao.net/?m=product&f=all&status=noclosed&t=json"
            /\ (probe[1].module = Product /\ config[1].moduleVar = "mod"
                    /\ Len(pairs) = 2 /\ pairs[1][1] = Say) =>
                  probe[2] = "http://demo.zentao.net/?mod=product&fn=all"
                                \o "&say=a%20b%26c%3Dd%2Fe&foo=bar%2Cter&view=json"

\* the URL of product/all with [['status','noclosed']] has been made in GET
\* mode with the default names
C19_Witness ==
    /\ UrlMade("GET")
    /\ ProductAllNoclosed
    /\ DefaultNames

\* C20 as stated: in PATH_INFO mode with the separator '-', the URL of
\* product/all with [['status','noclosed']] is the base and then
\* product-all-status-noclosed.json.
C20_PathWithKey ==
    (UrlMade("PATH_INFO") /\ ProductAllNoclosed /\ config[1].requestFix = "-") =>
        probe[2] = "http://demo.zentao.net/product-all-status-noclosed.json"

\* C20: in PATH_INFO mode with the separator '-', the URL of product/all
\* with [['status','noclosed']] is the base and then
\* product-all-noclosed.json: the URL is the base, the module, the
\* separator, the method, then for each normalized pair in order the
\* separator and the value - the key is left out, the value is not
\* percent-encoded - and then '.json'.
C20_PathValuesOnly ==
    UrlMade("PATH_INFO") =>
        LET pairs == NormalizeRequestParams(probe[1].params)
            fix   == config[1].requestFix
            head  == BaseUrl \o Str(probe[1].module) \o fix \o Str(probe[1].method)
            value(i) == fix \o Str(ValueChars(pairs[i][2]))
        IN  /\ Len(pairs) = 0 => probe[2] = head \o ".json"
            /\ Len(pairs) = 1 => probe[2] = head \o value(1) \o ".json"
            /\ Len(pairs) = 2 => probe[2] = head \o value(1) \o value(2) \o ".json"
            /\ Len(pairs) = 3 =>
                  probe[2] = head \o value(1) \o value(2) \o value(3) \o ".json"
            /\ Len(pairs) <= 3
            /\ (ProductAllNoclosed /\ fix = "-") =>
                  probe[2] = "http://demo.zentao.net/product-all-noclosed.json"
            /\ (probe[1].module = Product /\ fix = "_"
                    /\ Len(pairs) = 2 /\ pairs[1][1] = Say) =>
                  probe[2] = "http://demo.zentao.net/product_all_a b&c=d/e_bar,ter.json"

\* the URL of product/all with [['status','noclosed']] has been made in
\* PATH_INFO mode with the separator '-'
C20_Witness ==
    /\ UrlMade("PATH_INFO")
    /\ ProductAllNoclosed
    /\ config[1].requestFix = "-"

\* the url of an instance has been made of a raw URL with the ending
Formatted(ending) ==
    /\ Len(probe) >= 2
    /\ probe[1].ending = ending

\* C21: the url made of a raw URL - a host with or without http:// or
\* https:// before it, and nothing, '/' or '/index.php' after it - is the
\* scheme, or http:// when the raw URL has none, the host and one '/': it
\* does not end with index.php nor with two slashes, and a raw URL that ends
\* with '/' is unchanged but for the scheme it gains; demo.zentao.net,
\* demo.zentao.net/ and demo.zentao.net/index.php all give
\* http://demo.zentao.net/.
C21_UrlNormalization ==
    Len(probe) >= 2 =>
        LET raw    == probe[1]
            url    == probe[2]
            scheme == IF raw.scheme = <<>> THEN Http ELSE raw.scheme
        IN  /\ url = scheme \o raw.host \o <<"/">>
            /\ StartsWith(url, scheme)
            /\ raw.scheme # <<>> => StartsWith(url, RawText(raw)) \/ raw.ending = IndexPhp
            /\ EndsWith(url, <<"/">>)
            /\ ~EndsWith(url, <<"/","/">>)
            /\ ~EndsWith(url, IndexPhp)
            /\ ~EndsWith(url, Tail(IndexPhp) \o <<"/">>)
            /\ raw.ending = <<"/">> =>
                  url = (IF raw.scheme = <<>> THEN Http ELSE <<>>) \o RawText(raw)
            /\ (raw.scheme = <<>> /\ raw.host = DemoHost) =>
                  Str(url) = "http://demo.zentao.net/"
            /\ (raw.scheme = Https /\ raw.host = DemoHost) =>
                  Str(url) = "https://demo.zentao.net/"

\* the url of an instance has been made of demo.zentao.net/index.php
C21_Witness ==
    /\ Formatted(IndexPhp)
    /\ RawText(probe[1]) = DemoHost \o IndexPhp
    /\ Str(probe[2]) = "http://demo.zentao.net/"

\* C22: fetchConfig sends its GET to the url of the instance followed by
\* '?mode=getconfig', with no slash put in between, and when the handshake
\* is answered the config of the instance is a new ZentaoConfig made of the
\* body.
C22_HandshakeUrl ==
    /\ Len(probe) >= 3 => probe[3] = probe[2] \o GetConfig
    /\ Len(probe) = 4 => config = <<ZentaoConfig(probe[4])>>

\* the mutators and the terminal operations of a builder
Mutators ==
    {"method", "f", "withParams", "appendParams", "named", "useConverter",
     "filterFields"}
Terminals == {"get", "post", "request"}

\* no terminal operation of the builder has been invoked, and the instance
\* has made no call and sent no exchange
NoExchangeYet ==
    probe[1].requests = <<>> =>
        /\ \A c \in Calls : calls[c] = IdleCall
        /\ inst = NewInstance(FALSE)

\* a step of a mutator: the builder it returns and leaves, and no call made
MutatorStep ==
    LET b    == probe[1].builder
        op   == probe'[1].last.op
        arg  == probe'[1].last.arg
        then == probe'[1].builder
    IN  op \in Mutators =>
          /\ probe'[1].last.this
          /\ UNCHANGED <<calls, inst, config, store, accepted, sessions>>
          /\ probe'[1].requests = probe[1].requests
          /\ probe'[1].object = probe[1].object
          /\ op \in {"method", "f"} => then = [b EXCEPT !.methodName = arg]
          /\ op = "withParams" => then = [b EXCEPT !.params = arg]
          /\ op = "appendParams" =>
                \E params \in BuilderParams :
                    /\ params = arg
                    /\ then = [b EXCEPT !.params =
                                 IF b.params = NoParams THEN params
                                 ELSE AsParams(MergeRequestParams(b.params, <<params>>))]
          /\ op = "named" => then = [b EXCEPT !.name = arg]
          /\ op = "useConverter" => then = [b EXCEPT !.resultConvertor = arg]
          /\ op = "filterFields" =>
                /\ \A f \in {"moduleName", "methodName", "params", "data",
                             "resultConvertor", "name", "url"} : then[f] = b[f]
                /\ Len(arg) = 3 => then.fields = << <<"id", "name", "title">> >>
                /\ Len(arg) = 2 => then.fields = << <<>> >>

\* a step of a terminal operation: the builder is left as it is, request()
\* is given what the builder holds, and one exchange is sent
TerminalStep ==
    LET b       == probe[1].builder
        op      == probe'[1].last.op
        arg     == probe'[1].last.arg
        request == probe'[1].requests[Len(probe'[1].requests)]
    IN  op \in Terminals =>
          /\ probe'[1].builder = b
          /\ Len(probe'[1].requests) = Len(probe[1].requests) + 1
          /\ request.options.params = b.params
          /\ request.options.fields = b.fields
          /\ request.options.resultConvertor = b.resultConvertor
          /\ request.options.name = b.name
          /\ request.options.url = b.url
          /\ request.options.data = IF op = "post" /\ arg # NoBody THEN arg ELSE b.data
          /\ op = "get" => request.options.method = "GET"
          /\ op = "post" => request.options.method = "POST"
          /\ \E c \in Calls :
                /\ calls[c] = IdleCall
                /\ calls'[c].module = b.moduleName
                /\ calls'[c].method = b.methodName
                /\ calls'[c].xlog = <<FullName(b.moduleName, b.methodName)>>

\* C23: every mutator of a builder (method, f, withParams, appendParams,
\* named, useConverter, filterFields) returns the builder itself and makes
\* no call on the instance, so that no exchange is sent before a terminal
\* operation is invoked; withParams puts its argument in the place of the
\* params and appendParams merges its argument into them; get(), post() and
\* request() give Zentao.request what the builder holds and leave every
\* field of the builder as it is, and post(body) gives it body and not the
\* data of the builder.
C23_BuilderProtocol ==
    /\ []NoExchangeYet
    /\ [][probe' # probe => (MutatorStep /\ TerminalStep)]_vars

\* post(body) has been called on a builder made with params, after
\* withParams has put a mapping in their place
C23_Witness ==
    /\ probe[1].last.op = "post"
    /\ probe[1].last.arg = CallerBody
    /\ probe[1].builder.methodName = All
    /\ probe[1].builder.params.form = "object"
    /\ Len(probe[1].requests) = 1
    /\ probe[1].requests[1].options.params = probe[1].builder.params

\* the i-th request was made with the caller's object as its body
PostedObject(i) ==
    /\ i \in 1..Len(probe[1].requests)
    /\ probe[1].requests[i].options.data = CallerBody

\* C24: when a request is given the caller's object as its body, the form
\* it sends has, for every array-valued field k of the object with the
\* elements e0..en, the keys k[0]..k[n] with those elements and no key k,
\* and every scalar field under its own key with its value, and nothing
\* else; {parentDeptID: '3', depts: ['d-1', 'd 2'], order: [], note: ''} is
\* sent as parentDeptID=3&depts%5B0%5D=d-1&depts%5B1%5D=d%202&note=; a body
\* that is a string is sent as it is.
C24_BodyEncoding ==
    \A i \in 1..Len(probe[1].requests) :
        LET request == probe[1].requests[i]
            given   == request.given
            form    == request.form
            value(key) == {form[j][2] : j \in {n \in 1..Len(form) : form[n][1] = key}}
            arrays  == {j \in 1..Len(given) : given[j][2].t = "array"}
            scalars == {j \in 1..Len(given) : given[j][2].t # "array"}
            items   == UNION {{<<j, n>> : n \in 1..Len(given[j][2].v)} : j \in arrays}
        IN  /\ request.options.data.t = "string" =>
                  request.data = Str(request.options.data.s)
            /\ (PostedObject(i) /\ given = DeptsBody) =>
                  request.data = "parentDeptID=3&depts%5B0%5D=d-1&depts%5B1%5D=d%202&note="
            /\ (PostedObject(i) /\ given = OrderBody) => request.data = "order%5B0%5D=7"
            /\ (PostedObject(i) /\ given = LoginBody) =>
                  request.data = "account=demo&password=123456"
            /\ (PostedObject(i) /\ given = <<>>) => request.data = ""
            /\ PostedObject(i) =>
                  /\ \A j \in arrays : value(given[j][1]) = {}
                  /\ \A e \in items :
                        value(given[e[1]][1] \o <<"[", Digits[e[2]], "]">>)
                            = {given[e[1]][2].v[e[2]]}
                  /\ \A j \in scalars : value(given[j][1]) = {given[j][2]}
                  /\ Len(form) = Cardinality(items) + Cardinality(scalars)

\* the caller's object {parentDeptID: '3', depts: ['d-1', 'd 2'], order: [],
\* note: ''} has been posted
C24_Witness ==
    /\ PostedObject(1)
    /\ probe[1].requests[1].given = DeptsBody

\* C30: request() leaves the object it is given as the body as it is: two
\* requests made one after the other with the same object send the same
\* form, the indexed keys of its array-valued fields included.
C30_BodyUnchanged ==
    \A i, j \in 1..Len(probe[1].requests) :
        (PostedObject(i) /\ PostedObject(j)) =>
            /\ probe[1].requests[i].data = probe[1].requests[j].data
            /\ probe[1].requests[i].given = probe[1].object

\* the names of the properties of an object
Names(object) == {object.v[i][1] : i \in 1..Len(object.v)}

\* `filtered` has the properties of `object` that are in the list, with the
\* values they have in `object`, and no others
KeepsListed(filtered, object, list) ==
    /\ filtered.t = "object"
    /\ Names(filtered) = Names(object) \cap Range(list)
    /\ \A name \in Names(filtered) :
          GetProperty(filtered, name) = GetProperty(object, name)

\* C25: with a list of fields, a result that is a plain object becomes a new
\* object with exactly the properties of the result that are in the list,
\* with their values - a field of the list that the result lacks is not
\* introduced; of a result that is an array every element that is an object
\* is filtered so, by itself; null, undefined and scalar results, and the
\* elements of an array that are not objects, are left as they are.
C25_AllowList ==
    (Len(probe) = 2 /\ probe[1].fields # <<>>) =>
        LET result   == probe[1].result
            list     == probe[1].fields[1]
            filtered == probe[2]
        IN  CASE result.t = "object" -> KeepsListed(filtered, result, list)
              [] result.t = "array" ->
                    /\ filtered.t = "array"
                    /\ Len(filtered.v) = Len(result.v)
                    /\ \A i \in 1..Len(result.v) :
                          IF result.v[i].t = "object"
                          THEN KeepsListed(filtered.v[i], result.v[i], list)
                          ELSE filtered.v[i] = result.v[i]
              [] OTHER -> filtered = result

\* C26: the login operation is recognized in one way: when the exchange of
\* an operation whose name the gate takes for the login - user/login
\* whatever the case of its letters, User/Login for one - is answered with a
\* result of status 1, that step renews the token, and the token is not
\* empty after it.
C26_LoginRecognized ==
    ( /\ fx.answered # <<>>
      /\ IsLoginName(fx.answered[1])
      /\ fx.answered[2] = 1 ) =>
        /\ fx.renewed
        /\ InstanceToken # ""

\* the call sends, in this step, the exchange of an operation that is not
\* the login
IssuesTarget(c) ==
    /\ ~AwaitsExchange(calls[c])
    /\ AwaitsExchange(calls'[c])
    /\ ~IsLoginName(calls'[c].xlog[Len(calls'[c].xlog)])

\* C27: when request() sends the exchange of an operation that is not the
\* login, the token of the config is not empty and not expired at that
\* moment; and when the login() the gate has called has returned status 0,
\* the exchange is not sent.
C27_AuthenticatedTarget ==
    [][ \A c \in Calls :
          IssuesTarget(c) =>
              /\ InstanceToken' # ""
              /\ ~IsTokenExpired(config'[1], now')
              /\ calls'[c].logins = 1 => calls'[c].ret = 1 ]_vars

\* a login() call has returned a result of status 0
LoginFailed(c) ==
    /\ calls[c].kind = "login"
    /\ calls[c].pc = "returned"
    /\ calls[c].ret = 0

\* C28: when login() returns a result of status 0 the token of the config
\* is empty and isTokenExpired is true, also when the instance had a token
\* that was not expired when login() was called: the config is the one the
\* handshake of this login() has made; so a request() for an operation other
\* than the login that comes next takes the gate, and the caller's taking
\* of the result changes nothing of that.
C28_FailedLoginUnauthenticated ==
    /\ [](\A c \in Calls :
            LoginFailed(c) =>
                /\ InstanceToken = ""
                /\ config[1]._token = Undefined
                /\ config[1]._tokenUpdateTime = NoTime
                /\ config[1].sessionID = SessionId(sessions)
                /\ IsTokenExpired(config[1], now)
                /\ \A op \in Operations :
                      ~IsLoginName(FullName(op.module, op.method)) =>
                          NeedsLogin(config, now, op.module, op.method))
    /\ [][ \A c \in Calls :
             LoginFailed(c) =>
                 /\ UNCHANGED <<config, now>>
                 /\ calls'[c] = IdleCall ]_vars

\* a login() called on an instance whose token was not expired has returned
\* a result of status 0
C28_Witness ==
    \E c \in Calls :
        /\ LoginFailed(c)
        /\ ~calls[c].entry.noConfig
        /\ ~calls[c].entry.expired

\* C29: mergeRequestParams and normalizeRequestParams do not modify their
\* inputs: after any number of calls every argument of the caller, the pairs
\* of its lists and the arrays it holds included, has the content it was
\* given with, the same call made again with the same objects returns an
\* equal list, and appendParams leaves every parameter object handed to the
\* builder before as it was.
InputsAsGiven == probe[1].args = probe[1].given

RepeatsEqual ==
    probe[1].fn \in {"normalize", "merge"} =>
        \A i, j \in 1..Len(probe[1].results) :
            probe[1].results[i] = probe[1].results[j]

C29_InputsUnmodified == InputsAsGiven /\ RepeatsEqual

====
